---- MODULE Spec2Model ----
(***************************************************************************)
(* Loom recommendation service (src/ml-service/recommendation.py).         *)
(*                                                                         *)
(* Numbers.  Scores, weights and factors are fixed-point integers in units *)
(* of 10^-4 (the precision of round(x, 4)); confidences, affinities and    *)
(* behaviour features are percentages (units of 10^-2).                    *)
(*                                                                         *)
(* Tensors.  A numpy array is [shape, init, hist]: its shape, the random   *)
(* draw that initialised it, and the sequence of in-place steps applied to *)
(* it since.  Two arrays with equal shape, init and hist hold equal        *)
(* numbers, because every step is a deterministic function of its tag and  *)
(* of the arrays it reads.                                                 *)
(***************************************************************************)
EXTENDS Integers, Sequences, FiniteSets, TLC

VARIABLES
    model,      \* _model: the global LoomNCF instance
    db,         \* _db: the cached database handle ("None" or "db")
    store,      \* the external store: [uri, doc], doc = <<>> or <<document>>
    main,       \* the process: "startup", "serving" or "crashed"
    th,         \* per worker thread: position in its handler and its locals
    rng,        \* numpy's global generator: the number of draws made so far
    started,    \* number of requests accepted so far
    completed,  \* history: per user, persisted count at startup plus update calls that returned
    wt,         \* ncf_weight evaluation: inputs and results
    sc,         \* the scoring function being evaluated: inputs and result
    fd          \* the recommend or assemble_feed call being followed: its locals

vars == <<model, db, store, main, th, rng, started, completed, wt, sc, fd>>

(***************************************************************************)
(* Bounds                                                                  *)
(***************************************************************************)
MaxReq   == 2   \* requests accepted in one run of the service
MaxStoreReq == 1 \* requests accepted in one run of the service over every store
MaxConc  == 2   \* requests accepted in one run of the service with its thread pool
MaxWarm  == 6   \* consecutive interactions in one run of the sequential service
MaxCount == 12  \* largest interaction count fed to ncf_weight
MaxPosts == 3   \* candidates handed to assemble_feed

(***************************************************************************)
(* Constants (recommendation.py:54-78)                                     *)
(***************************************************************************)
Scale == 10^4

EMBEDDING_DIM    == 32
LEARNING_RATE    == 100     \* 0.01
REGULARIZATION   == 10      \* 0.001
MIN_INTERACTIONS == 5
MAX_NCF_WEIGHT   == 6500    \* 0.65
DIVERSITY_THRESHOLD == 45   \* 0.45, in percent
FOLLOW_BOOST     == 1200    \* 0.12
MAX_BEHAVIOR_PENALTY == 22  \* 0.22, in percent
TAG_DECAY_FACTOR == 2       \* 0.5 ** k  =  1 / TAG_DECAY_FACTOR ^ k
\* SERENDIPITY_RATIO, in percent
SERENDIPITY_RATIO == 10

\* a lookup that gives a kind outside the vocabulary no positive label
INTERACTION_WEIGHTS_known(interaction_type) ==
    CASE interaction_type = "like"    -> 100
      [] interaction_type = "comment" -> 85
      [] OTHER                        -> 0

\* INTERACTION_WEIGHTS.get(interaction_type, 1.0), in percent
INTERACTION_WEIGHTS(interaction_type) ==
    CASE interaction_type = "like"    -> 100
      [] interaction_type = "comment" -> 85
      [] OTHER                        -> 100

\* CATEGORY_WEIGHTS.get(category, 0.0), in percent
CATEGORY_WEIGHTS(category) ==
    CASE category = "medium"             -> 15
      [] category = "subject"            -> 25
      [] category = "style"              -> 25
      [] category = "mood"               -> 15
      [] category = "color_palette"      -> 10
      [] category = "aesthetic_features" -> 10
      [] OTHER                           -> 0

(***************************************************************************)
(* Identifiers the requests draw from                                      *)
(***************************************************************************)
Users    == {"u1", "u2"}
PostIds  == {"p1", "p2"}
Kinds    == {"like", "comment", "share"}
Threads  == {1, 2}

Max(a, b) == IF a >= b THEN a ELSE b
Min(a, b) == IF a <= b THEN a ELSE b

EmptyMap == [x \in {} |-> 0]
Put(f, k, v) == [x \in DOMAIN f \cup {k} |-> IF x = k THEN v ELSE f[x]]

(***************************************************************************)
(* Arrays                                                                  *)
(***************************************************************************)
\* np.random.randn(*shape) * 0.01, as draw number r of the generator
randn(shape, r) == [shape |-> shape, init |-> r, hist |-> <<>>]
\* np.zeros(n)
zeros(n) == [shape |-> <<n>>, init |-> 0, hist |-> <<>>]
\* arr += step  (in place)
Apply(arr, tag) == [arr EXCEPT !.hist = Append(@, tag)]

\* enc: np.save into a buffer, then base64.  The text carries the .npy
\* header (the shape) followed by the flat payload.
enc(arr) == <<"npy", Len(arr.shape), arr.shape, arr.init, arr.hist>>
\* dec: base64-decode, then np.load.  Raises on text that is not a .npy file.
decRaises(s) == ~(Len(s) = 5 /\ s[1] = "npy" /\ s[2] = Len(s[3]))
dec(s) == [shape |-> s[3], init |-> s[4], hist |-> s[5]]

(***************************************************************************)
(* LoomNCF                                                                 *)
(***************************************************************************)
\* LoomNCF.__init__, with the generator at g: W1 and W2 are the next two draws
LoomNCF(embedding_dim, lr, reg, g) ==
    [ embedding_dim   |-> embedding_dim,
      lr              |-> lr,
      reg             |-> reg,
      user_embeddings |-> EmptyMap,
      post_embeddings |-> EmptyMap,
      W1 |-> randn(<<embedding_dim * 2, embedding_dim>>, g + 1),
      b1 |-> zeros(embedding_dim),
      W2 |-> randn(<<embedding_dim, 1>>, g + 2),
      b2 |-> zeros(1),
      user_interaction_counts |-> EmptyMap ]

\* _get_user_emb with the generator at g: the model and the generator after
\* the call, and the array returned
get_user_emb(m, uid, g) ==
    IF uid \in DOMAIN m.user_embeddings
    THEN [model |-> m, rng |-> g, emb |-> m.user_embeddings[uid]]
    ELSE LET e == randn(<<m.embedding_dim>>, g + 1)
         IN  [model |-> [m EXCEPT !.user_embeddings = Put(@, uid, e)],
              rng |-> g + 1, emb |-> e]

\* a lookup that draws a new embedding whether or not the id has one
get_post_emb_redrawn(m, pid, g) ==
    LET e == randn(<<m.embedding_dim>>, g + 1)
    IN  [model |-> [m EXCEPT !.post_embeddings = Put(@, pid, e)],
         rng |-> g + 1, emb |-> e]

\* _get_post_emb
get_post_emb(m, pid, g) ==
    IF pid \in DOMAIN m.post_embeddings
    THEN [model |-> m, rng |-> g, emb |-> m.post_embeddings[pid]]
    ELSE LET e == randn(<<m.embedding_dim>>, g + 1)
         IN  [model |-> [m EXCEPT !.post_embeddings = Put(@, pid, e)],
              rng |-> g + 1, emb |-> e]

\* _forward: the score is a function of the six arrays it reads
forward(m, user_emb, post_emb) ==
    [ x  |-> <<user_emb, post_emb>>, W1 |-> m.W1, b1 |-> m.b1,
      W2 |-> m.W2, b2 |-> m.b2 ]

\* predict computing on embeddings it does not keep
predict_nostore(m, user_id, post_id, g) ==
    LET u == get_user_emb(m, user_id, g)
        p == get_post_emb(u.model, post_id, u.rng)
    IN  [model |-> m, rng |-> p.rng,
         value |-> forward(m, u.emb, p.emb)]

\* predict: the model and the generator after the call, and the value returned
predict(m, user_id, post_id, g) ==
    LET u == get_user_emb(m, user_id, g)
        p == get_post_emb(u.model, post_id, u.rng)
    IN  [model |-> p.model, rng |-> p.rng,
         value |-> forward(p.model, u.emb, p.emb)]

\* floor(10^4 * ln n) for n = 1..24
LnTable ==
    << 0, 6931, 10986, 13862, 16094, 17917, 19459, 20794, 21972, 23025,
       23978, 24849, 25649, 26390, 27080, 27725, 28332, 28903, 29444, 29957,
       30445, 30910, 31354, 31780 >>
log(n) == LnTable[n]

\* ncf_weight growing with the logarithm itself, not saturating
ncf_weight_unsaturated(count) ==
    IF count < MIN_INTERACTIONS THEN 0
    ELSE (MAX_NCF_WEIGHT * log(count - MIN_INTERACTIONS + 1)) \div Scale

\* ncf_weight on a count:  MAX * (1 - 1/(1 + ln(count - MIN + 1)))  =  MAX * L / (1 + L)
ncf_weight_of(count) ==
    IF count < MIN_INTERACTIONS THEN 0
    ELSE LET L     == log(count - MIN_INTERACTIONS + 1)
             alpha == (MAX_NCF_WEIGHT * L) \div (Scale + L)
         IN  Min(alpha, MAX_NCF_WEIGHT)

\* self.user_interaction_counts.get(user_id, 0)
Count(m, user_id) ==
    IF user_id \in DOMAIN m.user_interaction_counts
    THEN m.user_interaction_counts[user_id] ELSE 0

\* LoomNCF.ncf_weight
ncf_weight(m, user_id) == ncf_weight_of(Count(m, user_id))

\* LoomNCF.to_dict
to_dict(m) ==
    [ embedding_dim |-> m.embedding_dim,
      lr |-> m.lr, reg |-> m.reg,
      W1 |-> enc(m.W1), b1 |-> enc(m.b1),
      W2 |-> enc(m.W2), b2 |-> enc(m.b2),
      user_embeddings |-> [k \in DOMAIN m.user_embeddings |-> enc(m.user_embeddings[k])],
      post_embeddings |-> [k \in DOMAIN m.post_embeddings |-> enc(m.post_embeddings[k])],
      user_interaction_counts |-> m.user_interaction_counts,
      saved_at |-> "utcnow" ]

\* from_dict raises (KeyError, or a decode error) on such a document
RequiredKeys ==
    {"embedding_dim", "lr", "reg", "W1", "b1", "W2", "b2",
     "user_embeddings", "post_embeddings"}
from_dict_raises(data) ==
    \/ ~(RequiredKeys \subseteq DOMAIN data)
    \/ \E k \in {"W1", "b1", "W2", "b2"} : decRaises(data[k])
    \/ \E k \in DOMAIN data.user_embeddings : decRaises(data.user_embeddings[k])
    \/ \E k \in DOMAIN data.post_embeddings : decRaises(data.post_embeddings[k])

\* from_dict that leaves b2 as the constructor made it
from_dict_nob2(data) ==
    [ embedding_dim   |-> data.embedding_dim,
      lr              |-> data.lr,
      reg             |-> data.reg,
      user_embeddings |-> [k \in DOMAIN data.user_embeddings |-> dec(data.user_embeddings[k])],
      post_embeddings |-> [k \in DOMAIN data.post_embeddings |-> dec(data.post_embeddings[k])],
      W1 |-> dec(data.W1), b1 |-> dec(data.b1),
      W2 |-> dec(data.W2), b2 |-> zeros(1),
      user_interaction_counts |->
          IF "user_interaction_counts" \in DOMAIN data
          THEN data.user_interaction_counts ELSE EmptyMap ]

\* LoomNCF.from_dict
from_dict(data) ==
    [ embedding_dim   |-> data.embedding_dim,
      lr              |-> data.lr,
      reg             |-> data.reg,
      user_embeddings |-> [k \in DOMAIN data.user_embeddings |-> dec(data.user_embeddings[k])],
      post_embeddings |-> [k \in DOMAIN data.post_embeddings |-> dec(data.post_embeddings[k])],
      W1 |-> dec(data.W1), b1 |-> dec(data.b1),
      W2 |-> dec(data.W2), b2 |-> dec(data.b2),
      user_interaction_counts |->
          IF "user_interaction_counts" \in DOMAIN data
          THEN data.user_interaction_counts ELSE EmptyMap ]

(***************************************************************************)
(* Persistence (recommendation.py:39-48, 200-232)                          *)
(***************************************************************************)
\* get_db: the value of _db after the call.  An empty MONGODB_URI skips the
\* connection; a URI naming no default database makes get_default_database
\* raise, which is caught and leaves _db unset.
get_db(dbv, uri) ==
    IF dbv = "None" /\ uri # ""
    THEN (IF uri = "nodefault" THEN "None" ELSE "db")
    ELSE dbv

\* update_one({"_id": ...}, {"$set": fields}, upsert=True) on the stored document
Upsert(doc, fields) ==
    LET old == IF doc = <<>> THEN [_id |-> "loom_ncf_v1"] ELSE doc[1]
    IN  << [k \in DOMAIN old \cup DOMAIN fields |->
               IF k \in DOMAIN fields THEN fields[k] ELSE old[k]] >>

\* save_model without its try/except
save_model_uncaught(m, dbv, st, up) ==
    LET d == get_db(dbv, st.uri)
    IN  IF d = "None" THEN [db |-> d, store |-> st, raised |-> FALSE]
        ELSE IF up
        THEN [db |-> d, store |-> [st EXCEPT !.doc = Upsert(@, to_dict(m))],
              raised |-> FALSE]
        ELSE [db |-> d, store |-> st, raised |-> TRUE]

\* save_model: up says whether the store answers this call
save_model(m, dbv, st, up) ==
    LET d == get_db(dbv, st.uri)
    IN  IF d = "None" THEN [db |-> d, store |-> st, raised |-> FALSE]
        ELSE IF up
        THEN [db |-> d, store |-> [st EXCEPT !.doc = Upsert(@, to_dict(m))],
              raised |-> FALSE]
        ELSE [db |-> d, store |-> st, raised |-> FALSE]

\* load_model
load_model(m, dbv, st, up) ==
    LET d == get_db(dbv, st.uri)
    IN  IF d = "None" THEN [db |-> d, model |-> m, raised |-> FALSE]
        ELSE IF ~up THEN [db |-> d, model |-> m, raised |-> FALSE]
        ELSE IF st.doc = <<>> THEN [db |-> d, model |-> m, raised |-> FALSE]
        ELSE IF from_dict_raises(st.doc[1])
        THEN [db |-> d, model |-> m, raised |-> FALSE]
        ELSE [db |-> d, model |-> from_dict(st.doc[1]), raised |-> FALSE]

(***************************************************************************)
(* Documents the store may hold when the process starts                    *)
(***************************************************************************)
\* a model of an earlier run: one user past the cold-start threshold
EarlierModel(dim) ==
    [ LoomNCF(dim, LEARNING_RATE, REGULARIZATION, 0) EXCEPT
        !.user_embeddings = Put(@, "u1", randn(<<dim>>, 3)),
        !.post_embeddings = Put(@, "p1", randn(<<dim>>, 4)),
        !.user_interaction_counts = Put(@, "u1", MIN_INTERACTIONS + 1) ]

DocSaved    == Upsert(<<>>, to_dict(EarlierModel(EMBEDDING_DIM)))
\* saved when the service was configured with another embedding size
DocOtherDim == Upsert(<<>>, to_dict(EarlierModel(EMBEDDING_DIM \div 2)))
\* a document whose W1 does not have the shape its embedding_dim calls for
DocBadShape ==
    << [DocSaved[1] EXCEPT !.W1 = enc(randn(<<EMBEDDING_DIM, EMBEDDING_DIM \div 2>>, 1))] >>
\* a document that lacks a tensor
DocNoW2 ==
    << [k \in (DOMAIN DocSaved[1]) \ {"W2"} |-> DocSaved[1][k]] >>

StoredDocs == {<<>>, DocSaved, DocOtherDim, DocBadShape, DocNoW2}
Uris == {"", "nodefault", "mongodb://host/loom"}

(***************************************************************************)
(* The service: startup, then worker threads serving requests              *)
(***************************************************************************)
\* a worker thread between requests; in a request it holds the locals of
\* interaction and update (interaction_type as kind, the drawn neg_id)
Idle == [pc |-> "idle", user_id |-> "", post_id |-> "", kind |-> "", label |-> 0,
         negatives |-> <<>>, neg_id |-> "", count |-> 0, resp |-> <<>>, pred |-> <<>>]

\* all_post_ids: absent, the liked post alone, the candidates of a feed, and
\* a list that names posts more than once
AllPostIds == {<<>>, <<"p1">>, <<"p1", "p2">>, <<"p2", "p1", "p2", "p1">>}

\* the tag of the gradient step of update(user_id, post_id, interaction_type):
\* the step is a function of the label and of the arrays of the pair
Grad(t) == <<"grad", th[t].label, th[t].user_id, th[t].post_id>>

NoScoring == UNCHANGED <<wt, sc, fd>>

\* @app.on_event("startup")
Startup ==
    /\ main = "startup"
    /\ \E up \in BOOLEAN :
         LET r == load_model(model, db, store, up)
         IN  /\ model' = r.model
             /\ db' = r.db
             /\ main' = IF r.raised THEN "crashed" ELSE "serving"
             /\ completed' = [u \in Users |-> Count(r.model, u)]
    /\ UNCHANGED <<store, th, rng, started>>
    /\ NoScoring

\* the endpoint handing all_post_ids to update as it came
InteractionUnfiltered(t, user_id, post_id, kind, all_post_ids, limit) ==
    /\ main = "serving"
    /\ th[t].pc = "idle"
    /\ started < limit
    /\ started' = started + 1
    /\ th' = [th EXCEPT ![t] =
                [Idle EXCEPT !.pc = "update", !.user_id = user_id,
                             !.post_id = post_id, !.kind = kind,
                             !.label = INTERACTION_WEIGHTS(kind),
                             !.negatives = all_post_ids]]
    /\ UNCHANGED <<model, db, store, main, rng, completed>>
    /\ NoScoring

\* POST /interaction, lines 491-497 and 120: the request is taken, negatives
\* are computed, update is entered and looks up its label
Interaction(t, user_id, post_id, kind, all_post_ids, limit) ==
    /\ main = "serving"
    /\ th[t].pc = "idle"
    /\ started < limit
    /\ started' = started + 1
    /\ th' = [th EXCEPT ![t] =
                [Idle EXCEPT !.pc = "update", !.user_id = user_id,
                             !.post_id = post_id, !.kind = kind,
                             !.label = INTERACTION_WEIGHTS(kind),
                             !.negatives = SelectSeq(all_post_ids,
                                                     LAMBDA pid : pid # post_id)]]
    /\ UNCHANGED <<model, db, store, main, rng, completed>>
    /\ NoScoring

\* update, lines 121-136: embeddings fetched, forward pass, gradients
UpdateForward(t) ==
    /\ th[t].pc = "update"
    /\ LET u == get_user_emb(model, th[t].user_id, rng)
           p == get_post_emb(u.model, th[t].post_id, u.rng)
       IN  model' = p.model /\ rng' = p.rng
    /\ th' = [th EXCEPT ![t].pc = "W2"]
    /\ UNCHANGED <<db, store, main, started, completed>>
    /\ NoScoring

\* one of the in-place statements of lines 138-141
UpdateParam(t, at, next) ==
    /\ th[t].pc = at
    /\ model' = [model EXCEPT ![at] = Apply(@, Grad(t))]
    /\ th' = [th EXCEPT ![t].pc = next]
    /\ UNCHANGED <<db, store, main, rng, started, completed>>
    /\ NoScoring

UpdateW2(t) == UpdateParam(t, "W2", "b2")
UpdateB2(t) == UpdateParam(t, "b2", "W1")
UpdateW1(t) == UpdateParam(t, "W1", "b1")
UpdateB1(t) == UpdateParam(t, "b1", "user_emb")

\* line 142
UpdateUserEmb(t) ==
    /\ th[t].pc = "user_emb"
    /\ model' = [model EXCEPT !.user_embeddings[th[t].user_id] = Apply(@, Grad(t))]
    /\ th' = [th EXCEPT ![t].pc = "post_emb"]
    /\ UNCHANGED <<db, store, main, rng, started, completed>>
    /\ NoScoring

\* lines 143, 145
UpdatePostEmb(t) ==
    /\ th[t].pc = "post_emb"
    /\ model' = [model EXCEPT !.post_embeddings[th[t].post_id] = Apply(@, Grad(t))]
    /\ th' = [th EXCEPT ![t].pc = IF th[t].negatives # <<>> THEN "negative" ELSE "count"]
    /\ UNCHANGED <<db, store, main, rng, started, completed>>
    /\ NoScoring

\* lines 146-151: one negative drawn, pairwise step on both post embeddings
UpdateNegative(t) ==
    /\ th[t].pc = "negative"
    /\ \E i \in 1..Len(th[t].negatives) :
         LET neg_id == th[t].negatives[i]
             n      == get_post_emb(model, neg_id, rng)
             m2     == [n.model EXCEPT !.post_embeddings[th[t].post_id] =
                                           Apply(@, <<"bpr+", neg_id>>)]
         IN  /\ model' = [m2 EXCEPT !.post_embeddings[neg_id] =
                                        Apply(@, <<"bpr-", th[t].post_id>>)]
             /\ rng' = n.rng
             /\ th' = [th EXCEPT ![t].pc = "count", ![t].neg_id = neg_id]
    /\ UNCHANGED <<db, store, main, started, completed>>
    /\ NoScoring

\* lines 153-154, right-hand side: the counter is read
UpdateCountRead(t) ==
    /\ th[t].pc = "count"
    /\ th' = [th EXCEPT ![t].pc = "count_store",
                        ![t].count = Count(model, th[t].user_id)]
    /\ UNCHANGED <<model, db, store, main, rng, started, completed>>
    /\ NoScoring

\* the store of lines 153-154 writing 1 instead of the count read plus one
UpdateCountRestart(t) ==
    /\ th[t].pc = "count_store"
    /\ model' = [model EXCEPT !.user_interaction_counts = Put(@, th[t].user_id, 1)]
    /\ completed' = [completed EXCEPT ![th[t].user_id] = @ + 1]
    /\ th' = [th EXCEPT ![t].pc = "save"]
    /\ UNCHANGED <<db, store, main, rng, started>>
    /\ NoScoring

\* lines 153-154, the store into the dict; update returns
UpdateCountStore(t) ==
    /\ th[t].pc = "count_store"
    /\ model' = [model EXCEPT !.user_interaction_counts =
                                  Put(@, th[t].user_id, th[t].count + 1)]
    /\ completed' = [completed EXCEPT ![th[t].user_id] = @ + 1]
    /\ th' = [th EXCEPT ![t].pc = "save"]
    /\ UNCHANGED <<db, store, main, rng, started>>
    /\ NoScoring

\* line 498: save_model(); an exception leaving it fails the request
SaveModel(t) ==
    /\ th[t].pc = "save"
    /\ \E up \in BOOLEAN :
         LET r == save_model(model, db, store, up)
         IN  /\ db' = r.db
             /\ store' = r.store
             /\ th' = IF r.raised
                      THEN [th EXCEPT ![t].pc = "idle",
                                      ![t].resp = <<[ok |-> FALSE, ncf_weight |-> 0]>>]
                      ELSE [th EXCEPT ![t].pc = "respond"]
    /\ UNCHANGED <<model, main, rng, started, completed>>
    /\ NoScoring

\* the response carrying the weight of the count update read, not of the
\* count it stored
RespondStale(t) ==
    /\ th[t].pc = "respond"
    /\ th' = [th EXCEPT ![t].pc = "idle",
                        ![t].resp = <<[ok |-> TRUE,
                                       ncf_weight |-> ncf_weight_of(th[t].count)]>>]
    /\ UNCHANGED <<model, db, store, main, rng, started, completed>>
    /\ NoScoring

\* line 504
Respond(t) ==
    /\ th[t].pc = "respond"
    /\ th' = [th EXCEPT ![t].pc = "idle",
                        ![t].resp = <<[ok |-> TRUE,
                                       ncf_weight |-> ncf_weight(model, th[t].user_id)]>>]
    /\ UNCHANGED <<model, db, store, main, rng, started, completed>>
    /\ NoScoring

\* a call of predict(user_id, post_id) by a thread that is between requests
Predict(t, user_id, post_id, limit) ==
    /\ main = "serving"
    /\ th[t].pc = "idle"
    /\ started < limit
    /\ started' = started + 1
    /\ LET r == predict(model, user_id, post_id, rng)
       IN  /\ model' = r.model
           /\ rng' = r.rng
           /\ th' = [th EXCEPT ![t] =
                       [Idle EXCEPT !.pred = <<[user_id |-> user_id,
                                                post_id |-> post_id,
                                                value   |-> r.value]>>]]
    /\ UNCHANGED <<db, store, main, completed>>
    /\ NoScoring

\* a /recommend request that reaches predict for one candidate: line 349 is
\* reached only when line 346 found a nonzero blend weight for the user
RecommendPredict(t, user_id, post_id, limit) ==
    /\ ncf_weight(model, user_id) # 0
    /\ Predict(t, user_id, post_id, limit)

UpdateStep(t) ==
    \/ UpdateForward(t)
    \/ UpdateW2(t)
    \/ UpdateB2(t)
    \/ UpdateW1(t)
    \/ UpdateB1(t)
    \/ UpdateUserEmb(t)
    \/ UpdatePostEmb(t)
    \/ UpdateNegative(t)
    \/ UpdateCountRead(t)
    \/ UpdateCountStore(t)

NoEval == [phase |-> "off"]

\* the process as it starts, with the store configured by one of uris and
\* holding one of docs
InitService(uris, docs) ==
    /\ model = LoomNCF(EMBEDDING_DIM, LEARNING_RATE, REGULARIZATION, 0)
    /\ rng = 2
    /\ db = "None"
    /\ \E uri \in uris, doc \in docs :
         /\ uri # "mongodb://host/loom" => doc = <<>>
         /\ store = [uri |-> uri, doc |-> doc]
    /\ main = "startup"
    /\ th = [t \in Threads |-> Idle]
    /\ started = 0
    /\ completed = [u \in Users |-> 0]

\* no scoring call is being followed
InitIdle == wt = NoEval /\ sc = NoEval /\ fd = NoEval

Init == InitService({"mongodb://host/loom"}, {<<>>, DocSaved}) /\ InitIdle

\* what a thread does between taking a request and answering it
Handle(t) ==
    \/ UpdateStep(t)
    \/ SaveModel(t)
    \/ Respond(t)

\* The service with one worker: requests are served one after the other.
Next ==
    \/ Startup
    \/ \E u \in Users, p \in PostIds, k \in Kinds, a \in AllPostIds :
         Interaction(1, u, p, k, a, MaxReq)
    \/ Handle(1)
    \/ \E u \in Users, p \in PostIds : Predict(1, u, p, MaxReq)

Spec == Init /\ [][Next]_vars

\* The service with its thread pool: sync endpoints run on worker threads,
\* and nothing in LoomNCF or in the handlers takes a lock.
NextConc ==
    \/ Startup
    \/ \E t \in Threads :
         \/ \E a \in AllPostIds : Interaction(t, "u1", "p1", "like", a, MaxConc)
         \/ Handle(t)
         \/ \E p \in PostIds : RecommendPredict(t, "u1", p, MaxConc)

SpecConc == Init /\ [][NextConc]_vars

\* The service with one worker over every store it may be started with.
InitStore == InitService(Uris, StoredDocs) /\ InitIdle

NextStore ==
    \/ Startup
    \/ \E u \in Users, p \in PostIds, k \in Kinds, a \in AllPostIds :
         Interaction(1, u, p, k, a, MaxStoreReq)
    \/ Handle(1)

SpecStore == InitStore /\ [][NextStore]_vars

\* A fresh model without a store, one user sending likes one after the other.
InitWarm == InitService({""}, {<<>>}) /\ InitIdle

NextWarm ==
    \/ Startup
    \/ \E a \in AllPostIds : Interaction(1, "u1", "p1", "like", a, MaxWarm)
    \/ Handle(1)

SpecWarm == InitWarm /\ [][NextWarm]_vars

(***************************************************************************)
(* ncf_weight over interaction counts                                      *)
(***************************************************************************)
\* a served model whose users have the interaction counts cnt
ModelWithCounts(cnt) ==
    [ LoomNCF(EMBEDDING_DIM, LEARNING_RATE, REGULARIZATION, 0) EXCEPT
        !.user_interaction_counts = [u \in {v \in DOMAIN cnt : cnt[v] > 0} |-> cnt[u]] ]

NoService ==
    UNCHANGED <<model, db, store, main, th, rng, started, completed>>

InitServing(m) ==
    /\ model = m
    /\ rng = 2
    /\ db = "None"
    /\ store = [uri |-> "", doc |-> <<>>]
    /\ main = "serving"
    /\ th = [t \in Threads |-> Idle]
    /\ started = 0
    /\ completed = [u \in Users |-> Count(m, u)]

InitWeight ==
    /\ \E cnt \in [Users -> 0..MaxCount] : InitServing(ModelWithCounts(cnt))
    /\ wt = [phase |-> "call", w |-> [u \in Users |-> 0]]
    /\ sc = NoEval /\ fd = NoEval

\* _model.ncf_weight(user_id) for every user
NcfWeight ==
    /\ wt.phase = "call"
    /\ wt' = [phase |-> "done", w |-> [u \in Users |-> ncf_weight(model, u)]]
    /\ UNCHANGED <<sc, fd>>
    /\ NoService

SpecWeight == InitWeight /\ [][NcfWeight]_vars

(***************************************************************************)
(* Hybrid scorer (recommendation.py:261-351)                               *)
(*                                                                         *)
(* Tag records are [label, confidence]; a tag may lack either field.       *)
(* Inside compute_tag_score the sum is carried in units of 10^-6.          *)
(*                                                                         *)
(* Values whose Python type the code tests or converts carry it: a value   *)
(* is [type |-> "dict", v |-> ...], [type |-> "list", v |-> ...],          *)
(* [type |-> "num", v |-> ...], or a value of another type such as         *)
(* [type |-> "str"] (a non-numeric string) or [type |-> "null"].           *)
(***************************************************************************)
Dict(v) == [type |-> "dict", v |-> v]
List(v) == [type |-> "list", v |-> v]
Num(v)  == [type |-> "num", v |-> v]
Null    == [type |-> "null"]
Str     == [type |-> "str"]

Get(f, k, default) == IF k \in DOMAIN f THEN f[k] ELSE default

RECURSIVE SumSeq(_)
SumSeq(q) == IF q = <<>> THEN 0 ELSE Head(q) + SumSeq(Tail(q))

\* round(x, 4) of a value given in units of 10^-4 / per
Round4(x, per) == (x + per \div 2) \div per

\* lines 273-280 with the affinity of the label left out
tag_t_score_no_affinity(tag, cat_affinity, seen_tag_counts) ==
    LET label      == Get(tag, "label", "")
        conf       == Get(tag, "confidence", 50)
        novelty    == IF label \notin DOMAIN cat_affinity THEN 80000 ELSE 0
        t_score    == conf * 6000 + novelty
        times_seen == Get(seen_tag_counts, label, 0)
    IN  IF times_seen > 0 THEN t_score \div (TAG_DECAY_FACTOR ^ times_seen)
        ELSE t_score

\* lines 273-280: one tag's contribution, in units of 10^-6
tag_t_score(tag, cat_affinity, seen_tag_counts) ==
    LET label      == Get(tag, "label", "")
        conf       == Get(tag, "confidence", 50)
        aff        == Get(cat_affinity, label, 0)
        novelty    == IF label \notin DOMAIN cat_affinity THEN 80000 ELSE 0
        t_score    == conf * (6000 + 40 * aff) + novelty
        times_seen == Get(seen_tag_counts, label, 0)
    IN  IF times_seen > 0 THEN t_score \div (TAG_DECAY_FACTOR ^ times_seen)
        ELSE t_score

\* lines 264-283: one category's weighted contribution, in units of 10^-6
category_score(category, tags, user_affinity, seen_tag_counts) ==
    LET cat_weight == CATEGORY_WEIGHTS(category)
    IN  IF cat_weight = 0 \/ tags = <<>> THEN 0
        ELSE LET cat_affinity == Get(user_affinity, category, EmptyMap)
                 cat_score    ==
                     SumSeq([i \in DOMAIN tags |->
                                tag_t_score(tags[i], cat_affinity, seen_tag_counts)])
                       \div Len(tags)
             IN  (cat_weight * cat_score) \div 100

RECURSIVE SumOver(_, _, _, _)
SumOver(cats, post_tags, user_affinity, seen_tag_counts) ==
    IF cats = {} THEN 0
    ELSE LET c == CHOOSE x \in cats : TRUE
         IN  category_score(c, post_tags[c], user_affinity, seen_tag_counts)
               + SumOver(cats \ {c}, post_tags, user_affinity, seen_tag_counts)

\* compute_tag_score; explore is the value random.uniform(0, exploration) drew
compute_tag_score(post_tags, user_affinity, seen_tag_counts, explore) ==
    Round4(SumOver(DOMAIN post_tags, post_tags, user_affinity, seen_tag_counts)
             + explore * 100, 100)

\* no clipping at all
NoClip(x) == x

\* min(1.0, max(0.0, x)) on a percentage
Clip(x) == Min(100, Max(0, x))

\* try: float(x) except Exception: 0.0
float_or_zero(x) == IF x.type = "num" THEN x.v ELSE 0

\* line 305: the creator's record, or {} when it has none
creator_stats_of(artist_id, creator_behavior_stats) ==
    Get(creator_behavior_stats, artist_id, Dict(EmptyMap))

\* line 306: its behavior_features, {} when the record is no dict
features_of(creator_stats) ==
    IF creator_stats.type = "dict"
    THEN Get(creator_stats.v, "behavior_features", Dict(EmptyMap))
    ELSE Dict(EmptyMap)

\* line 307 evaluates features.get("botScore", 0.0) as the default of
\* creator_stats.get outside any try: it raises AttributeError when
\* behavior_features is no mapping
behavior_raises(artist_id, creator_behavior_stats) ==
    LET creator_stats == creator_stats_of(artist_id, creator_behavior_stats)
    IN  creator_stats.type = "dict" /\ features_of(creator_stats).type # "dict"

\* features.get(name, 0.0) inside its try block, converted
feature_of(features, name) ==
    IF features.type = "dict" THEN float_or_zero(Get(features.v, name, Num(0)))
    ELSE 0

\* lines 305-340: the behaviour factor, in units of 10^-4
behavior_factor(artist_id, creator_behavior_stats) ==
    LET creator_stats  == creator_stats_of(artist_id, creator_behavior_stats)
        features       == features_of(creator_stats)
        bot_score      ==
            Clip(IF creator_stats.type = "dict"
                 THEN float_or_zero(Get(creator_stats.v, "bot_score",
                                        Get(features.v, "botScore", Num(0))))
                 ELSE 0)
        fast_reply_pct      == Clip(feature_of(features, "fastReplyPct"))
        circadian_flatness  == Clip(feature_of(features, "circadianFlatness"))
        interval_regularity == Clip(feature_of(features, "intervalRegularity"))
        suspiciousness == 60 * bot_score + 15 * fast_reply_pct
                            + 15 * circadian_flatness + 10 * interval_regularity
        factor         == (Scale * 100 - MAX_BEHAVIOR_PENALTY * suspiciousness) \div 100
    IN  Min(Scale, Max(Scale - MAX_BEHAVIOR_PENALTY * 100, factor))

\* the returned expression of lines 343, 347 and 351 without its min(1.0, ...)
final_score_unclamped(base, followed_boost, factor) ==
    Round4((base + followed_boost) * factor, Scale)

\* round(min(1.0, (base + followed_boost) * behavior_factor), 4)
final_score(base, followed_boost, factor) ==
    Round4(Min(Scale * Scale, (base + followed_boost) * factor), Scale)

\* the scorer asking the learned model before it looks at the user id, the
\* post id and the blend weight
compute_hybrid_score_eager(m, g, user_id, post, user_affinity, seen_tag_counts, explore, followed_artist_ids, creator_behavior_stats, ncf_score) ==
    LET post_id   == Get(post, "_id", "")
        artist_id == Get(post, "artistId", "")
        post_tags == Get(post, "mlTags", EmptyMap)
        tag_score == compute_tag_score(post_tags, user_affinity, seen_tag_counts, explore)
        followed_boost ==
            IF artist_id # "" /\ artist_id \in followed_artist_ids
            THEN FOLLOW_BOOST ELSE 0
        factor    == behavior_factor(artist_id, creator_behavior_stats)
        alpha     == ncf_weight(m, user_id)
        p         == predict(m, user_id, post_id, g)
    IN  IF behavior_raises(artist_id, creator_behavior_stats)
        THEN [model |-> m, rng |-> g, raised |-> TRUE, score |-> 0]
        ELSE IF user_id = "" \/ post_id = "" \/ alpha = 0
        THEN [model |-> p.model, rng |-> p.rng, raised |-> FALSE,
              score |-> final_score(tag_score, followed_boost, factor)]
        ELSE [model |-> p.model, rng |-> p.rng, raised |-> FALSE,
              score |-> final_score(
                            (alpha * ncf_score + (Scale - alpha) * tag_score) \div Scale,
                            followed_boost, factor)]

\* compute_hybrid_score on model m with generator position g; ncf_score is the
\* number the logistic output of predict evaluates to when predict is called.
\* The result carries the model and generator as the call leaves them, and
\* whether the call raised instead of returning a score.
compute_hybrid_score(m, g, user_id, post, user_affinity, seen_tag_counts, explore, followed_artist_ids, creator_behavior_stats, ncf_score) ==
    LET post_id   == Get(post, "_id", "")
        artist_id == Get(post, "artistId", "")
        post_tags == Get(post, "mlTags", EmptyMap)
        tag_score == compute_tag_score(post_tags, user_affinity, seen_tag_counts, explore)
        followed_boost ==
            IF artist_id # "" /\ artist_id \in followed_artist_ids
            THEN FOLLOW_BOOST ELSE 0
        factor    == behavior_factor(artist_id, creator_behavior_stats)
        alpha     == ncf_weight(m, user_id)
        p         == predict(m, user_id, post_id, g)
    IN  IF behavior_raises(artist_id, creator_behavior_stats)
        THEN [model |-> m, rng |-> g, raised |-> TRUE, score |-> 0]
        ELSE IF user_id = "" \/ post_id = ""
        THEN [model |-> m, rng |-> g, raised |-> FALSE,
              score |-> final_score(tag_score, followed_boost, factor)]
        ELSE IF alpha = 0
        THEN [model |-> m, rng |-> g, raised |-> FALSE,
              score |-> final_score(tag_score, followed_boost, factor)]
        ELSE [model |-> p.model, rng |-> p.rng, raised |-> FALSE,
              score |-> final_score(
                            (alpha * ncf_score + (Scale - alpha) * tag_score) \div Scale,
                            followed_boost, factor)]

\* Inputs of one call
Tag(label, confidence) == [label |-> label, confidence |-> confidence]

AllCategories ==
    {"medium", "subject", "style", "mood", "color_palette", "aesthetic_features"}

TagChoices ==
    { EmptyMap,
      [style |-> <<Tag("a", 100)>>],
      [style |-> <<Tag("a", 100), Tag("b", 50)>>, subject |-> <<Tag("a", 0)>>],
      [genre |-> <<Tag("a", 100)>>, mood |-> <<>>],
      [c \in AllCategories |-> <<Tag("a", 100)>>],
      [style |-> <<[label |-> "b"]>>, mood |-> <<[confidence |-> 100]>>] }

AffinityChoices ==
    { EmptyMap,
      [c \in AllCategories |-> [a |-> 100]],
      [style |-> [a |-> 50, b |-> 50]] }

SeenChoices == { EmptyMap, [a |-> 1], [a |-> 2, b |-> 1] }

\* creator trust records: none, worst case, out of range, partial
StatsChoices ==
    { EmptyMap,
      [a1 |-> Dict([bot_score |-> Num(100),
                    behavior_features |->
                        Dict([fastReplyPct |-> Num(100), circadianFlatness |-> Num(100),
                              intervalRegularity |-> Num(100)])])],
      [a1 |-> Dict([bot_score |-> Num(250),
                    behavior_features |->
                        Dict([fastReplyPct |-> Num(-50), circadianFlatness |-> Num(150)])])],
      [a1 |-> Dict([behavior_features |->
                        Dict([botScore |-> Num(50), intervalRegularity |-> Num(50)])])] }

\* draws of random.uniform(0, exploration) for exploration 0, 0.15 and 2.0
ExploreChoices == {0, 1500, 20000}

\* values of the logistic output of predict
NcfChoices == {0, Scale \div 2, Scale}

CountChoices == {0, MIN_INTERACTIONS, MIN_INTERACTIONS + 1, MaxCount}

InitScore ==
    /\ \E c \in CountChoices : InitServing(ModelWithCounts([u \in {"u1"} |-> c]))
    /\ \E user_id \in {"", "u1"}, post_id \in {"", "p1"}, artist_id \in {"", "a1"},
          tags \in TagChoices,
          aff \in AffinityChoices, seen \in SeenChoices, explore \in ExploreChoices,
          followed \in {{}, {"a1"}}, stats \in StatsChoices, ncf \in NcfChoices :
         sc = [ phase |-> "call", user_id |-> user_id,
                post |-> [_id |-> post_id, artistId |-> artist_id, mlTags |-> tags],
                user_affinity |-> aff, seen_tag_counts |-> seen, explore |-> explore,
                followed_artist_ids |-> followed, creator_behavior_stats |-> stats,
                ncf_score |-> ncf, score |-> 0 ]
    /\ wt = NoEval /\ fd = NoEval

\* one call of compute_hybrid_score
Score ==
    /\ sc.phase = "call"
    /\ LET r == compute_hybrid_score(
                     model, rng, sc.user_id, sc.post, sc.user_affinity,
                     sc.seen_tag_counts, sc.explore, sc.followed_artist_ids,
                     sc.creator_behavior_stats, sc.ncf_score)
       IN  /\ sc' = [sc EXCEPT !.phase = "done", !.score = r.score]
           /\ model' = r.model
           /\ rng' = r.rng
    /\ UNCHANGED <<db, store, main, th, started, completed, wt, fd>>

SpecScore == InitScore /\ [][Score]_vars

(***************************************************************************)
(* Affinity building (recommendation.py:243-258)                           *)
(*                                                                         *)
(* History values carry their Python type, as trust values do.             *)
(* Weights are in percent, so a contribution confidence * weight is in     *)
(* units of 10^-4; a normalized weight is the exact fraction num/den.      *)
(***************************************************************************)
\* interaction.get("tags", {})
tags_of(interaction) == Get(interaction, "tags", Dict(EmptyMap))

\* .items() on a value that is no mapping raises AttributeError (line 247)
affinity_raises(interaction_history) ==
    \E i \in DOMAIN interaction_history :
        tags_of(interaction_history[i]).type # "dict"

\* lines 248-252: what one category value adds to affinity[category][label]
tag_list_adds(tags, weight, label) ==
    IF tags.type # "list" THEN 0
    ELSE SumSeq([j \in DOMAIN tags.v |->
                    LET tag == tags.v[j]
                    IN  IF tag.type = "dict" /\ "label" \in DOMAIN tag.v
                           /\ tag.v.label = label
                        THEN Get(tag.v, "confidence", 50) * weight
                        ELSE 0])

\* the labels line 252 touches in one category value
tag_list_labels(tags) ==
    IF tags.type # "list" THEN {}
    ELSE { tags.v[j].v.label :
             j \in { k \in DOMAIN tags.v :
                       tags.v[k].type = "dict" /\ "label" \in DOMAIN tags.v[k].v } }

\* lines 245-252: the accumulated sums, category -> label -> sum
accumulate(interaction_history) ==
    LET H       == interaction_history
        cats(i) == DOMAIN tags_of(H[i]).v
        lab(c)  == UNION { tag_list_labels(tags_of(H[i]).v[c]) :
                             i \in { k \in DOMAIN H : c \in cats(k) } }
        present == { c \in UNION { cats(i) : i \in DOMAIN H } : lab(c) # {} }
    IN  [ c \in present |->
            [ l \in lab(c) |->
                SumSeq([i \in DOMAIN H |->
                           IF c \in cats(i)
                           THEN tag_list_adds(tags_of(H[i]).v[c],
                                              Get(H[i], "weight", 100), l)
                           ELSE 0]) ] ]

RECURSIVE SumMap(_, _)
SumMap(f, keys) ==
    IF keys = {} THEN 0
    ELSE LET k == CHOOSE x \in keys : TRUE
         IN  f[k] + SumMap(f, keys \ {k})

\* lines 253-257: a category is normalized when its total is positive
normalize(sums) ==
    [ c \in DOMAIN sums |->
        LET total == SumMap(sums[c], DOMAIN sums[c])
        IN  [ l \in DOMAIN sums[c] |->
                IF total > 0 THEN [num |-> sums[c][l], den |-> total]
                ELSE [num |-> sums[c][l], den |-> 1] ] ]

\* build_user_affinity: whether it raises, and the mapping it returns
build_user_affinity(interaction_history) ==
    IF affinity_raises(interaction_history)
    THEN [raised |-> TRUE, affinity |-> EmptyMap]
    ELSE [raised |-> FALSE, affinity |-> normalize(accumulate(interaction_history))]

\* an affinity weight as the scorer reads it, in percent
as_percent(w) == (100 * w.num) \div w.den

affinity_percent(affinity) ==
    [ c \in DOMAIN affinity |-> [ l \in DOMAIN affinity[c] |-> as_percent(affinity[c][l]) ] ]

(***************************************************************************)
(* Diversity filter (recommendation.py:357-390)                            *)
(***************************************************************************)
\* the nested labels(t) of tag_similarity: every label of every tag list
labels(t) ==
    UNION { { t[c][i].label : i \in { j \in DOMAIN t[c] : "label" \in DOMAIN t[c][j] } }
            : c \in DOMAIN t }

\* the share of the first label set found in the second
tag_overlap(tags_a, tags_b) ==
    LET a == labels(tags_a)
        b == labels(tags_b)
    IN  IF a = {} \/ b = {} THEN [num |-> 0, den |-> 1]
        ELSE [num |-> Cardinality(a \cap b), den |-> Cardinality(a)]

\* tag_similarity as the fraction num/den; 0.0 when either label set is empty
tag_similarity(tags_a, tags_b) ==
    LET a == labels(tags_a)
        b == labels(tags_b)
    IN  IF a = {} \/ b = {} THEN [num |-> 0, den |-> 1]
        ELSE [num |-> Cardinality(a \cap b), den |-> Cardinality(a \cup b)]

\* sim > percent / 100
Exceeds(sim, percent) == 100 * sim.num > percent * sim.den

\* a descending sort that puts a post before the posts of equal score
InsertFirst(q, x) ==
    LET k == Cardinality({ i \in DOMAIN q : Get(q[i], "score", 0) > Get(x, "score", 0) })
    IN  SubSeq(q, 1, k) \o <<x>> \o SubSeq(q, k + 1, Len(q))

RECURSIVE sorted_ties_reversed(_)
sorted_ties_reversed(q) ==
    IF q = <<>> THEN <<>>
    ELSE InsertFirst(sorted_ties_reversed(SubSeq(q, 1, Len(q) - 1)), q[Len(q)])

\* sorted(scored, key = score, reverse = True): stable, descending
InsertDesc(q, x) ==
    LET k == Cardinality({ i \in DOMAIN q : Get(q[i], "score", 0) >= Get(x, "score", 0) })
    IN  SubSeq(q, 1, k) \o <<x>> \o SubSeq(q, k + 1, Len(q))

RECURSIVE sorted(_)
sorted(q) ==
    IF q = <<>> THEN <<>>
    ELSE InsertDesc(sorted(SubSeq(q, 1, Len(q) - 1)), q[Len(q)])

\* the filter with only the most recently accepted post compared
too_similar_last(tags, feed) ==
    /\ feed # <<>>
    /\ Exceeds(tag_similarity(tags, Get(feed[Len(feed)], "mlTags", EmptyMap)),
               DIVERSITY_THRESHOLD)

\* lines 377-380
too_similar(tags, feed) ==
    \E i \in DOMAIN feed :
        Exceeds(tag_similarity(tags, Get(feed[i], "mlTags", EmptyMap)),
                DIVERSITY_THRESHOLD)

\* counts that grow by one per label of the post, however many of its tags
\* carry the label
count_labels(seen_tag_counts, tags) ==
    [ l \in DOMAIN seen_tag_counts \cup labels(tags) |->
        Get(seen_tag_counts, l, 0) + (IF l \in labels(tags) THEN 1 ELSE 0) ]

\* lines 384-389: one count per labelled tag occurrence
RECURSIVE Occurrences(_, _, _)
Occurrences(cats, tags, label) ==
    IF cats = {} THEN 0
    ELSE LET c == CHOOSE x \in cats : TRUE
         IN  Cardinality({ j \in DOMAIN tags[c] :
                             /\ "label" \in DOMAIN tags[c][j]
                             /\ tags[c][j].label = label })
               + Occurrences(cats \ {c}, tags, label)

count_tags(seen_tag_counts, tags) ==
    [ l \in DOMAIN seen_tag_counts \cup labels(tags) |->
        Get(seen_tag_counts, l, 0) + Occurrences(DOMAIN tags, tags, l) ]

\* Candidate tag structures and scores
FeedTags ==
    { EmptyMap,
      [style |-> <<Tag("a", 100)>>],
      [style |-> <<Tag("a", 100), Tag("b", 50)>>],
      [style |-> <<Tag("a", 100), Tag("b", 50)>>, mood |-> <<Tag("c", 50)>>],
      [style |-> <<Tag("d", 100)>>, mood |-> <<Tag("c", 50)>>],
      [style |-> <<[confidence |-> 100]>>, mood |-> <<>>] }

FeedScores == {2000, 7000}

RECURSIVE SeqsUpTo(_, _)
SeqsUpTo(S, n) ==
    IF n = 0 THEN {<<>>}
    ELSE LET shorter == SeqsUpTo(S, n - 1)
         IN  shorter \cup { Append(q, x) : q \in { r \in shorter : Len(r) = n - 1 }, x \in S }

\* posts carry their position in the request as _id
Candidates ==
    { [i \in DOMAIN q |-> [_id |-> i, mlTags |-> q[i].mlTags, score |-> q[i].score]]
      : q \in SeqsUpTo([mlTags : FeedTags, score : FeedScores], MaxPosts) }

InitFeed ==
    /\ InitServing(ModelWithCounts(EmptyMap))
    /\ \E scored \in Candidates, n \in 0..MaxPosts :
         fd = [ phase |-> "call", scored |-> scored, n |-> n, sorted_posts |-> <<>>,
                i |-> 0, feed |-> <<>>, seen_tag_counts |-> EmptyMap ]
    /\ wt = NoEval /\ sc = NoEval

\* lines 371-372
AssembleSort ==
    /\ fd.phase = "call"
    /\ fd' = [fd EXCEPT !.phase = "loop", !.sorted_posts = sorted(fd.scored), !.i = 1]
    /\ UNCHANGED <<wt, sc>>
    /\ NoService

\* lines 374-375: the walk ends when the feed is full
AssembleBreak ==
    /\ fd.phase = "loop"
    /\ fd.i <= Len(fd.sorted_posts)
    /\ Len(fd.feed) >= fd.n
    /\ fd' = [fd EXCEPT !.phase = "done"]
    /\ UNCHANGED <<wt, sc>>
    /\ NoService

\* lines 376-389: one candidate is skipped or accepted
AssembleStep ==
    /\ fd.phase = "loop"
    /\ fd.i <= Len(fd.sorted_posts)
    /\ Len(fd.feed) < fd.n
    /\ LET post == fd.sorted_posts[fd.i]
           tags == Get(post, "mlTags", EmptyMap)
       IN  IF too_similar(tags, fd.feed)
           THEN fd' = [fd EXCEPT !.i = @ + 1]
           ELSE fd' = [fd EXCEPT !.i = @ + 1,
                                 !.feed = Append(@, post),
                                 !.seen_tag_counts = count_tags(@, tags)]
    /\ UNCHANGED <<wt, sc>>
    /\ NoService

\* line 390: the candidates are exhausted
AssembleReturn ==
    /\ fd.phase = "loop"
    /\ fd.i > Len(fd.sorted_posts)
    /\ fd' = [fd EXCEPT !.phase = "done"]
    /\ UNCHANGED <<wt, sc>>
    /\ NoService

NextFeed == AssembleSort \/ AssembleBreak \/ AssembleStep \/ AssembleReturn

SpecFeed == InitFeed /\ [][NextFeed]_vars

(***************************************************************************)
(* Two posts that differ in one label                                      *)
(***************************************************************************)
\* confidences around the point where 0.4 * confidence meets the novelty bonus
PairConfidences == {5, 20, 21, 50, 100}

\* what both posts carry in the categories other than the one compared:
\* nothing, or a full-confidence tag in some or all of them
RestOf(category) ==
    { EmptyMap,
      [c \in {CHOOSE x \in AllCategories \ {category} : TRUE} |-> <<Tag("d", 100)>>],
      [c \in AllCategories \ {category} |-> <<Tag("d", 100)>>] }

InitPair ==
    /\ \E count \in {0, MIN_INTERACTIONS + 1} :
         InitServing(ModelWithCounts([u \in {"u1"} |-> count]))
    /\ \E category \in AllCategories, confidence \in PairConfidences,
          user_id \in {"", "u1"} :
         \E rest \in RestOf(category) :
           sc = [ phase |-> "call", user_id |-> user_id, category |-> category,
                  confidence |-> confidence,
                  post_L |-> [_id |-> "p1", artistId |-> "a1",
                              mlTags |-> Put(rest, category, <<Tag("a", confidence)>>)],
                  post_M |-> [_id |-> "p1", artistId |-> "a1",
                              mlTags |-> Put(rest, category, <<Tag("b", confidence)>>)],
                  user_affinity |-> [c \in {category} |-> [a |-> 100]],
                  ncf_score |-> Scale \div 2, score_L |-> 0, score_M |-> 0 ]
    /\ wt = NoEval /\ fd = NoEval

\* compute_hybrid_score on each of the two posts: exploration 0, nothing
\* seen, nobody followed, no trust data
ScorePair ==
    /\ sc.phase = "call"
    /\ LET l == compute_hybrid_score(model, rng, sc.user_id, sc.post_L,
                                     sc.user_affinity, EmptyMap, 0, {}, EmptyMap,
                                     sc.ncf_score)
           m == compute_hybrid_score(l.model, l.rng, sc.user_id, sc.post_M,
                                     sc.user_affinity, EmptyMap, 0, {}, EmptyMap,
                                     sc.ncf_score)
       IN  /\ sc' = [sc EXCEPT !.phase = "done", !.score_L = l.score,
                               !.score_M = m.score]
           /\ model' = m.model
           /\ rng' = m.rng
    /\ UNCHANGED <<db, store, main, th, started, completed, wt, fd>>

SpecPair == InitPair /\ [][ScorePair]_vars

(***************************************************************************)
(* Calls of tag_similarity                                                 *)
(***************************************************************************)
MaxSimTags == 2

\* tag structures: a style list of up to MaxSimTags tags labelled a or b or
\* not labelled at all, with or without a mood list holding label c
SimTags ==
    LET lists == SeqsUpTo({Tag("a", 100), Tag("b", 50), [confidence |-> 100]},
                          MaxSimTags)
    IN  { [style |-> q] : q \in lists }
          \cup { [style |-> q, mood |-> <<Tag("c", 100)>>] : q \in lists }
          \cup { EmptyMap }

InitSim ==
    /\ InitServing(ModelWithCounts(EmptyMap))
    /\ \E tags_a \in SimTags, tags_b \in SimTags :
         sc = [ phase |-> "call", tags_a |-> tags_a, tags_b |-> tags_b,
                ab |-> [num |-> 0, den |-> 1], ba |-> [num |-> 0, den |-> 1] ]
    /\ wt = NoEval /\ fd = NoEval

\* tag_similarity called both ways round
Similarity ==
    /\ sc.phase = "call"
    /\ sc' = [sc EXCEPT !.phase = "done",
                        !.ab = tag_similarity(sc.tags_a, sc.tags_b),
                        !.ba = tag_similarity(sc.tags_b, sc.tags_a)]
    /\ UNCHANGED <<wt, fd>>
    /\ NoService

SpecSim == InitSim /\ [][Similarity]_vars

(***************************************************************************)
(* Trust records                                                           *)
(***************************************************************************)
\* a record of creator a1 with the given bot score and features
Trust(fields) == [a1 |-> Dict(fields)]

\* records with numbers in them: worst case, out of range, all above one,
\* bot score inside the features, a null bot score next to a number
NumericTrust ==
    { Trust([bot_score |-> Num(100),
             behavior_features |->
                 Dict([fastReplyPct |-> Num(100), circadianFlatness |-> Num(100),
                       intervalRegularity |-> Num(100)])]),
      Trust([bot_score |-> Num(250),
             behavior_features |->
                 Dict([fastReplyPct |-> Num(-50), circadianFlatness |-> Num(150)])]),
      Trust([bot_score |-> Num(250),
             behavior_features |->
                 Dict([fastReplyPct |-> Num(150), circadianFlatness |-> Num(150),
                       intervalRegularity |-> Num(700)])]),
      Trust([behavior_features |->
                 Dict([botScore |-> Num(50), intervalRegularity |-> Num(50)])]),
      Trust([bot_score |-> Null,
             behavior_features |-> Dict([fastReplyPct |-> Num(100)])]) }

\* records without a usable number: no record, a null record, an empty one,
\* a null or non-numeric bot score, null or non-mapping behaviour features,
\* non-numeric feature values
MissingTrust ==
    { EmptyMap,
      [a1 |-> Null],
      Trust(EmptyMap),
      Trust([bot_score |-> Null]),
      Trust([bot_score |-> Str]),
      Trust([behavior_features |-> Null]),
      Trust([behavior_features |-> List(<<>>)]),
      Trust([bot_score |-> Str, behavior_features |-> Str]),
      Trust([behavior_features |->
                 Dict([fastReplyPct |-> Str, circadianFlatness |-> Null])]) }

InitTrust ==
    /\ InitServing(ModelWithCounts(EmptyMap))
    /\ \E stats \in NumericTrust \cup MissingTrust, tags \in TagChoices,
          aff \in AffinityChoices, followed \in {{}, {"a1"}} :
         sc = [ phase |-> "call",
                post |-> [_id |-> "p1", artistId |-> "a1", mlTags |-> tags],
                user_affinity |-> aff, followed_artist_ids |-> followed,
                creator_behavior_stats |-> stats,
                raised |-> FALSE, factor |-> 0, score |-> 0 ]
    /\ wt = NoEval /\ fd = NoEval

\* one call of compute_hybrid_score for an anonymous viewer, exploration 0;
\* the behaviour factor it computed is kept next to the score
ScoreTrust ==
    /\ sc.phase = "call"
    /\ LET r == compute_hybrid_score(model, rng, "", sc.post, sc.user_affinity,
                                     EmptyMap, 0, sc.followed_artist_ids,
                                     sc.creator_behavior_stats, 0)
       IN  /\ sc' = [sc EXCEPT
                       !.phase = "done", !.raised = r.raised, !.score = r.score,
                       !.factor = IF r.raised THEN 0
                                  ELSE behavior_factor("a1", sc.creator_behavior_stats)]
           /\ model' = r.model
           /\ rng' = r.rng
    /\ UNCHANGED <<db, store, main, th, started, completed, wt, fd>>

SpecTrust == InitTrust /\ [][ScoreTrust]_vars

(***************************************************************************)
(* Calls of build_user_affinity                                             *)
(***************************************************************************)
\* Histories
MaxHistory == 2

\* entries of the documented shape; a weight may be absent
GoodEntries ==
    { [weight |-> 100,
       tags |-> Dict([style |-> List(<<Dict(Tag("a", 100)), Dict(Tag("b", 50))>>)])],
      [tags |-> Dict([style |-> List(<<Dict(Tag("a", 100))>>),
                      mood  |-> List(<<Dict(Tag("c", 50))>>)])],
      [weight |-> 85, tags |-> Dict([style |-> List(<<Dict(Tag("b", 0))>>)])],
      [weight |-> 0, tags |-> Dict([mood |-> List(<<Dict(Tag("c", 100))>>)])],
      [weight |-> 100] }

\* entries of another shape: tags that are a list or null, a category that
\* is a string, a tag that is a string, a tag without label, a tag without
\* confidence
MalformedEntries ==
    { [weight |-> 100, tags |-> [type |-> "list"]],
      [weight |-> 100, tags |-> [type |-> "null"]],
      [weight |-> 100, tags |-> Dict([style |-> [type |-> "str"]])],
      [weight |-> 100, tags |-> Dict([style |-> List(<<[type |-> "str"]>>)])],
      [weight |-> 100, tags |-> Dict([style |-> List(<<Dict([confidence |-> 100])>>)])],
      [weight |-> 100, tags |-> Dict([style |-> List(<<Dict([label |-> "a"])>>)])] }

Histories == SeqsUpTo(GoodEntries \cup MalformedEntries, MaxHistory)

InitAffinity ==
    /\ InitServing(ModelWithCounts(EmptyMap))
    /\ \E h \in Histories :
         sc = [phase |-> "call", interaction_history |-> h,
               result |-> [raised |-> FALSE, affinity |-> EmptyMap]]
    /\ wt = NoEval /\ fd = NoEval

\* one call of build_user_affinity
BuildAffinity ==
    /\ sc.phase = "call"
    /\ sc' = [sc EXCEPT !.phase = "done",
                        !.result = build_user_affinity(sc.interaction_history)]
    /\ UNCHANGED <<wt, fd>>
    /\ NoService

SpecAffinity == InitAffinity /\ [][BuildAffinity]_vars

(***************************************************************************)
(* POST /recommend (recommendation.py:393-403, 434-486)                    *)
(***************************************************************************)
\* the bound on the candidates of one request
MaxRecPosts == 3

\* a <= b for fractions
FracLeq(a, b) == a.num * b.den <= b.num * a.den

\* max(tag_similarity(tags, fp.mlTags) for fp in feed); dissimilarity is one
\* minus it, and 1.0 when the feed is empty
max_similarity(tags, feed) ==
    IF feed = <<>> THEN [num |-> 0, den |-> 1]
    ELSE LET sims == { tag_similarity(tags, Get(feed[i], "mlTags", EmptyMap))
                         : i \in DOMAIN feed }
         IN  CHOOSE f \in sims : \A g \in sims : FracLeq(g, f)

\* candidates.sort(key = dissimilarity, reverse = True): stable, the least
\* similar first
InsertDissimilar(q, x, feed) ==
    LET key(p) == max_similarity(Get(p, "mlTags", EmptyMap), feed)
        k == Cardinality({ i \in DOMAIN q : FracLeq(key(q[i]), key(x)) })
    IN  SubSeq(q, 1, k) \o <<x>> \o SubSeq(q, k + 1, Len(q))

RECURSIVE sort_dissimilar(_, _)
sort_dissimilar(q, feed) ==
    IF q = <<>> THEN <<>>
    ELSE InsertDissimilar(sort_dissimilar(SubSeq(q, 1, Len(q) - 1), feed),
                          q[Len(q)], feed)

\* every post kept, in the feed or not
not_excluded(posts, feed) == posts

\* [p for p in posts if p not in feed]: membership compares whole dicts
not_in(posts, feed) ==
    SelectSeq(posts, LAMBDA p : \A i \in DOMAIN feed : feed[i] # p)

\* the first n candidates in request order, unsorted
pick_unsorted(posts, feed, n) ==
    LET candidates == not_in(posts, feed)
    IN  SubSeq(candidates, 1, Min(n, Len(candidates)))

\* pick_serendipity
pick_serendipity(posts, feed, n) ==
    LET candidates == not_in(posts, feed)
    IN  IF candidates = <<>> THEN <<>>
        ELSE SubSeq(sort_dissimilar(candidates, feed), 1, Min(n, Len(candidates)))

\* req.top_n or 20
top_n_of(req) == IF req.top_n = 0 THEN 20 ELSE req.top_n

\* req.exploration_factor or 0.15, in percent
exploration_of(req) == IF req.exploration_factor = 0 THEN 15 ELSE req.exploration_factor

\* line 448 without its max(1, ...)
n_serendipity_floor(top_n) == (top_n * SERENDIPITY_RATIO) \div 100

\* lines 448-449
n_serendipity_of(top_n) == Max(1, (top_n * SERENDIPITY_RATIO) \div 100)
n_personalised_of(top_n) == top_n - n_serendipity_of(top_n)

\* One scoring pass over posts, in order, of the positions in which: every
\* such post gets the score compute_hybrid_score returns for it, and the pass
\* ends at the first call that raises. draws maps a post to what
\* random.uniform drew for it and req.ncf to what the logistic output
\* evaluates to for it.
RECURSIVE score_posts(_, _, _, _, _, _, _, _, _)
score_posts(m, g, req, affinity, seen_tag_counts, posts, which, draws, k) ==
    IF k > Len(posts) THEN [model |-> m, rng |-> g, posts |-> posts, raised |-> FALSE]
    ELSE IF k \notin which
    THEN score_posts(m, g, req, affinity, seen_tag_counts, posts, which, draws, k + 1)
    ELSE LET r == compute_hybrid_score(
                      m, g, req.user_id, posts[k], affinity, seen_tag_counts,
                      draws[posts[k]._id], req.followed_artist_ids,
                      req.creator_behavior_stats, req.ncf[posts[k]._id])
         IN  IF r.raised
             THEN [model |-> r.model, rng |-> r.rng, posts |-> posts, raised |-> TRUE]
             ELSE score_posts(r.model, r.rng, req, affinity, seen_tag_counts,
                              [posts EXCEPT ![k] = Put(@, "score", r.score)],
                              which, draws, k + 1)

\* line 463: post["ncf_weight"]
with_ncf_weight(m, user_id, posts) ==
    [ k \in DOMAIN posts |->
        Put(posts[k], "ncf_weight",
            IF user_id # "" THEN ncf_weight(m, user_id) ELSE 0) ]

\* lines 481-482
flagged(posts) ==
    [ k \in DOMAIN posts |-> Put(posts[k], "is_serendipity", TRUE) ]

\* what random.uniform(0, exploration) may draw, in units of 10^-4, for an
\* exploration given in percent: the lower end and the largest value below
\* the upper end
ExploreDraws(exploration) ==
    IF exploration = 0 THEN {0} ELSE {0, exploration * 100 - 1}

\* Requests
RecTags ==
    { EmptyMap,
      [style |-> <<Tag("a", 100)>>],
      [style |-> <<Tag("a", 100), Tag("b", 50)>>, mood |-> <<Tag("a", 50)>>],
      [mood |-> <<Tag("c", 100)>>] }

\* candidates are named after their position; creators alternate
RecIds == <<"p1", "p2", "p3", "p4", "p5", "p6">>

PosOf(id) == CHOOSE i \in DOMAIN RecIds : RecIds[i] = id

IdsOf(posts) == { posts[i]._id : i \in DOMAIN posts }

RecPosts ==
    { [i \in DOMAIN q |->
         [_id |-> RecIds[i], artistId |-> IF i % 2 = 1 THEN "a1" ELSE "a2", mlTags |-> q[i]]]
      : q \in SeqsUpTo(RecTags, MaxRecPosts) }

\* a viewer without history, follows or trust data; and one whose history is
\* all on label a, who follows a1, while a2 looks automated
RecViewers ==
    { [interaction_history |-> <<>>, followed_artist_ids |-> {},
       creator_behavior_stats |-> EmptyMap],
      [interaction_history |->
           <<[weight |-> 100,
              tags |-> Dict([style |-> List(<<Dict(Tag("a", 100))>>)])]>>,
       followed_artist_ids |-> {"a1"},
       creator_behavior_stats |->
           [a2 |-> Dict([bot_score |-> Num(100),
                         behavior_features |->
                             Dict([fastReplyPct |-> Num(100),
                                   circadianFlatness |-> Num(100),
                                   intervalRegularity |-> Num(100)])])]] }

\* the logistic output per candidate: unused, or rising with position
NcfEven == [id \in {RecIds[i] : i \in 1..MaxRecPosts} |-> Scale \div 2]

NcfRising == [id \in DOMAIN NcfEven |-> (PosOf(id) * Scale) \div (MaxRecPosts + 1)]

\* anonymous, below the threshold, above it
RecUsers ==
    { [user_id |-> "", count |-> 0, ncf |-> NcfEven],
      [user_id |-> "u1", count |-> 0, ncf |-> NcfEven],
      [user_id |-> "u1", count |-> MIN_INTERACTIONS + 1, ncf |-> NcfRising] }

\* a request drawn from the given candidate lists, viewers, users, target
\* sizes and exploration factors (in percent), about to be handled
InitRequest(lists, viewers, users, sizes, factors) ==
    \E posts \in lists, v \in viewers, u \in users, top_n \in sizes,
       exploration_factor \in factors :
        /\ InitServing(ModelWithCounts([x \in {"u1"} |-> u.count]))
        /\ fd = [ phase |-> "request",
                  req |-> [ posts |-> posts, user_id |-> u.user_id, ncf |-> u.ncf,
                            interaction_history |-> v.interaction_history,
                            followed_artist_ids |-> v.followed_artist_ids,
                            creator_behavior_stats |-> v.creator_behavior_stats,
                            top_n |-> top_n,
                            exploration_factor |-> exploration_factor ],
                  affinity |-> EmptyMap, draws |-> EmptyMap, draws2 |-> EmptyMap,
                  scored |-> <<>>, n |-> 0, sorted_posts |-> <<>>, i |-> 0,
                  feed |-> <<>>, seen_tag_counts |-> EmptyMap,
                  remaining |-> <<>>, serendipity |-> <<>>, final |-> <<>> ]
        /\ wt = NoEval /\ sc = NoEval

InitRec == InitRequest(RecPosts, RecViewers, RecUsers, 0..(MaxRecPosts + 1), {15})

\* lines 436-470: defaults, the empty request, affinity, pass 1
RecommendScore ==
    /\ fd.phase = "request"
    /\ LET req      == fd.req
           top_n    == top_n_of(req)
           affinity == build_user_affinity(req.interaction_history)
       IN  IF req.posts = <<>>
           THEN /\ fd' = [fd EXCEPT !.phase = "returned"]
                /\ UNCHANGED <<model, rng>>
           ELSE IF affinity.raised
           THEN /\ fd' = [fd EXCEPT !.phase = "raised"]
                /\ UNCHANGED <<model, rng>>
           ELSE \E draws \in [IdsOf(req.posts) -> ExploreDraws(exploration_of(req))] :
                  LET r == score_posts(model, rng, req,
                                       affinity_percent(affinity.affinity), EmptyMap,
                                       req.posts, DOMAIN req.posts, draws, 1)
                  IN  /\ fd' = IF r.raised THEN [fd EXCEPT !.phase = "raised"]
                                ELSE [fd EXCEPT
                                  !.phase = "call", !.draws = draws,
                                  !.affinity = affinity_percent(affinity.affinity),
                                  !.scored = with_ncf_weight(r.model, req.user_id, r.posts),
                                  !.n = n_personalised_of(top_n)]
                      /\ model' = r.model
                      /\ rng' = r.rng
    /\ UNCHANGED <<db, store, main, th, started, completed, wt, sc>>

\* lines 472-486: pass 2 over the remainder, serendipity, merge
RecommendRest ==
    /\ fd.phase = "done"
    /\ "req" \in DOMAIN fd
    /\ LET req       == fd.req
           remaining == not_in(fd.scored, fd.feed)
       IN  \E draws \in [IdsOf(remaining) -> ExploreDraws(exploration_of(req))] :
             LET r == score_posts(model, rng, req, fd.affinity,
                                  fd.seen_tag_counts, remaining, DOMAIN remaining,
                                  draws, 1)
                 serendipity == flagged(pick_serendipity(
                                            r.posts, fd.feed,
                                            n_serendipity_of(top_n_of(req))))
             IN  /\ fd' = IF r.raised THEN [fd EXCEPT !.phase = "raised"]
                           ELSE [fd EXCEPT !.phase = "returned", !.draws2 = draws,
                                           !.remaining = r.posts,
                                           !.serendipity = serendipity,
                                           !.final = sorted(fd.feed \o serendipity)]
                 /\ model' = r.model
                 /\ rng' = r.rng
    /\ UNCHANGED <<db, store, main, th, started, completed, wt, sc>>

NextRec == RecommendScore \/ NextFeed \/ RecommendRest

SpecRec == InitRec /\ [][NextRec]_vars

(***************************************************************************)
(* Requests that supply their exploration factor and target size           *)
(***************************************************************************)
\* exploration factors in percent: none, a small one, the default
ExploreFactors == {0, 5, 15}

InitExplore ==
    InitRequest({ q \in RecPosts : Len(q) <= 2 },
                { v \in RecViewers : v.interaction_history = <<>> },
                RecUsers, 0..3, ExploreFactors)

SpecExplore == InitExplore /\ [][NextRec]_vars

(***************************************************************************)
(* Properties of the service                                               *)
(***************************************************************************)
Occ(seq, x) == Cardinality({i \in DOMAIN seq : seq[i] = x})

\* A view of the model (the model itself, a restored snapshot, or what one
\* forward pass read) carries a gradient step partially when the six arrays
\* the step touches do not all hold it the same number of times.
Partial(view) ==
    \E tag \in {view.W2.hist[i] : i \in DOMAIN view.W2.hist} :
        LET n == Occ(view.W2.hist, tag)
        IN  \/ Occ(view.b2.hist, tag) # n
            \/ Occ(view.W1.hist, tag) # n
            \/ Occ(view.b1.hist, tag) # n
            \/ /\ tag[3] \in DOMAIN view.user_embeddings
               /\ Occ(view.user_embeddings[tag[3]].hist, tag) # n
            \/ /\ tag[4] \in DOMAIN view.post_embeddings
               /\ Occ(view.post_embeddings[tag[4]].hist, tag) # n

\* what a predict call read, as a view
PredView(pr) ==
    [ W1 |-> pr.value.W1, b1 |-> pr.value.b1,
      W2 |-> pr.value.W2, b2 |-> pr.value.b2,
      user_embeddings |-> (pr.user_id :> pr.value.x[1]),
      post_embeddings |-> (pr.post_id :> pr.value.x[2]) ]

\* C5: update calls are serialized: once N update calls for a user have
\* returned, the user's interaction count has grown by exactly N.
C5_UpdatesSerialized ==
    \A u \in Users : Count(model, u) = completed[u]

\* C6: neither a predict nor a snapshot taken while an update runs observes
\* a gradient step applied to some of W2, b2, W1, b1 and the touched
\* embeddings but not to the others.
C6_NoPartialObservation ==
    /\ \A t \in Threads :
         th[t].pred # <<>> => ~Partial(PredView(th[t].pred[1]))
    /\ (store.doc # <<>> /\ ~from_dict_raises(store.doc[1]))
         => ~Partial(from_dict(store.doc[1]))

\* shapes agree with the model's embedding dimension
Consistent(m) ==
    LET d == m.embedding_dim
    IN  /\ m.W1.shape = <<2 * d, d>>
        /\ m.b1.shape = <<d>>
        /\ m.W2.shape = <<d, 1>>
        /\ m.b2.shape = <<1>>
        /\ \A k \in DOMAIN m.user_embeddings : m.user_embeddings[k].shape = <<d>>
        /\ \A k \in DOMAIN m.post_embeddings : m.post_embeddings[k].shape = <<d>>

\* C9: a snapshot whose tensors do not have the shape its embedding
\* dimension calls for never becomes the live model.
C9_InconsistentSnapshotRejected ==
    main = "serving" => Consistent(model)

\* C7 as stated: predict leaves the whole model as it was, embedding maps
\* included, and a repeated predict returns the same value.
C7_PredictChangesNothing ==
    [][\A u \in Users, p \in PostIds :
          Predict(1, u, p, MaxReq) =>
              /\ model' = model
              /\ predict(model', u, p, rng').value = th'[1].pred[1].value]_vars

\* C7 amended: predict leaves the network parameters, the interaction counts
\* and every existing embedding as they were; the only change it can make is
\* to add an embedding for the user id or the post id it was given when that
\* id had none; and a second predict on the same pair returns the same value
\* and changes nothing.
C7_PredictFrame ==
    [][\A u \in Users, p \in PostIds :
          Predict(1, u, p, MaxReq) =>
              /\ [model' EXCEPT !.user_embeddings = 0, !.post_embeddings = 0]
                   = [model EXCEPT !.user_embeddings = 0, !.post_embeddings = 0]
              /\ DOMAIN model'.user_embeddings = DOMAIN model.user_embeddings \cup {u}
              /\ DOMAIN model'.post_embeddings = DOMAIN model.post_embeddings \cup {p}
              /\ \A k \in DOMAIN model.user_embeddings :
                     model'.user_embeddings[k] = model.user_embeddings[k]
              /\ \A k \in DOMAIN model.post_embeddings :
                     model'.post_embeddings[k] = model.post_embeddings[k]
              /\ predict(model', u, p, rng').value = th'[1].pred[1].value
              /\ predict(model', u, p, rng').model = model']_vars

\* a predict, made after an update, for a user that had no embedding
C7_Witness ==
    /\ th[1].pc = "idle" /\ th[1].pred # <<>>
    /\ model.W2.hist # <<>>
    /\ Count(model, th[1].pred[1].user_id) = 0
    /\ model.user_embeddings[th[1].pred[1].user_id].hist = <<>>

\* C8: restoring the snapshot of any reachable model gives back the same
\* embedding dimension, parameters, embeddings and counts, hence the same
\* predict value for every known pair and the same ncf_weight; so does the
\* snapshot read back from the store.
C8_SnapshotRoundTrip ==
    LET snap == to_dict(model)
        m2   == from_dict(snap)
        m3   == from_dict(Upsert(store.doc, snap)[1])
    IN  /\ ~from_dict_raises(snap)
        /\ m2.embedding_dim = model.embedding_dim
        /\ m2.W1 = model.W1 /\ m2.b1 = model.b1
        /\ m2.W2 = model.W2 /\ m2.b2 = model.b2
        /\ m2.user_embeddings = model.user_embeddings
        /\ m2.post_embeddings = model.post_embeddings
        /\ m2.user_interaction_counts = model.user_interaction_counts
        /\ \A u \in DOMAIN model.user_embeddings, p \in DOMAIN model.post_embeddings :
               predict(m2, u, p, rng).value = predict(model, u, p, rng).value
        /\ \A u \in Users : ncf_weight(m2, u) = ncf_weight(model, u)
        /\ m3 = m2

\* a trained model whose snapshot sits in the store
C8_Witness ==
    /\ model.b2.hist # <<>>
    /\ model.user_interaction_counts # EmptyMap
    /\ store.doc # <<>>
    /\ ~from_dict_raises(store.doc[1])
    /\ from_dict(store.doc[1]) = model

\* C10: persistence failures are not fatal: load_model and save_model return
\* normally whether the store is unconfigured, unreachable or holds a
\* document that cannot be restored; a load that fails leaves the model as
\* it was; and every /interaction request is answered ok, with the blend
\* weight of the count its own update stored.
C10_PersistenceNonFatal ==
    /\ main # "crashed"
    /\ main = "startup" =>
         \A up \in BOOLEAN :
             LET r == load_model(model, db, store, up)
             IN  /\ ~r.raised
                 /\ ( \/ get_db(db, store.uri) = "None"
                      \/ ~up
                      \/ store.doc = <<>>
                      \/ from_dict_raises(store.doc[1]) ) => r.model = model
    /\ \A t \in Threads :
         /\ th[t].pc = "save" =>
              \A up \in BOOLEAN : ~save_model(model, db, store, up).raised
         /\ th[t].pc \in {"save", "respond"} =>
              Count(model, th[t].user_id) = th[t].count + 1
         /\ th[t].resp # <<>> =>
              /\ th[t].resp[1].ok
              /\ th[t].resp[1].ncf_weight = ncf_weight_of(th[t].count + 1)

\* a request answered ok although the configured store took no snapshot
C10_Witness ==
    /\ th[1].resp # <<>> /\ th[1].resp[1].ok
    /\ db = "db" /\ store.doc = <<>>
    /\ Count(model, th[1].user_id) = 1

\* C4: from a fresh model, the blend weight returned after the k-th
\* consecutive like of a user is 0 for k = 1..4 and positive for k >= 5.
C4_WarmFromFifthLike ==
    \A t \in Threads :
        th[t].resp # <<>> =>
            LET k == th[t].count + 1
                w == th[t].resp[1].ncf_weight
            IN  /\ k < MIN_INTERACTIONS => w = 0
                /\ k >= MIN_INTERACTIONS => w > 0

(***************************************************************************)
(* Properties of ncf_weight                                                *)
(***************************************************************************)
\* C3: ncf_weight is 0 below MIN_INTERACTIONS, non-decreasing in the count
\* from MIN_INTERACTIONS on, and always within [0, MAX_NCF_WEIGHT].
C3_NcfWeightShape ==
    wt.phase = "done" =>
        \A u \in Users :
            LET c == Count(model, u)
                w == wt.w[u]
            IN  /\ c < MIN_INTERACTIONS => w = 0
                /\ 0 <= w /\ w <= MAX_NCF_WEIGHT
                /\ \A v \in Users :
                       (MIN_INTERACTIONS <= c /\ c <= Count(model, v)) => w <= wt.w[v]

\* a count just past the threshold and a larger one, with a larger weight
C3_Witness ==
    /\ wt.phase = "done"
    /\ Count(model, "u1") = MIN_INTERACTIONS + 1
    /\ Count(model, "u2") > MIN_INTERACTIONS + 3
    /\ 0 < wt.w["u1"] /\ wt.w["u1"] < wt.w["u2"]

(***************************************************************************)
(* Properties of the hybrid scorer                                         *)
(***************************************************************************)
\* C1: every score compute_hybrid_score returns lies in [0, 1], whatever the
\* tags, affinities, exploration draw, followed set, trust record and model.
C1_ScoreInUnitInterval ==
    sc.phase = "done" => (0 <= sc.score /\ sc.score <= Scale)

\* worst-case suspicion, a followed creator and a blended score that still
\* reaches the upper end of the interval
C1_Witness ==
    /\ sc.phase = "done"
    /\ sc.user_id = "u1" /\ ncf_weight(model, "u1") > 0
    /\ sc.post.artistId = "a1" /\ "a1" \in sc.followed_artist_ids
    /\ "p1" \in DOMAIN model.post_embeddings
    /\ behavior_factor("a1", sc.creator_behavior_stats) = Scale - MAX_BEHAVIOR_PENALTY * 100
    /\ sc.score = Scale

(***************************************************************************)
(* Properties of the diversity filter                                      *)
(***************************************************************************)
\* C2: at every step of the greedy walk of assemble_feed, and in the slice it
\* returns, any two distinct selected posts have tag_similarity at most
\* DIVERSITY_THRESHOLD.
C2_FeedPairwiseDiverse ==
    fd.phase \in {"loop", "done"} =>
        \A i, j \in DOMAIN fd.feed :
            i # j => ~Exceeds(tag_similarity(Get(fd.feed[i], "mlTags", EmptyMap),
                                             Get(fd.feed[j], "mlTags", EmptyMap)),
                              DIVERSITY_THRESHOLD)

\* a returned slice of two labelled posts, with a third candidate turned away
\* for resembling the first of them only
C2_Witness ==
    /\ fd.phase = "done"
    /\ Len(fd.feed) = 2 /\ Len(fd.feed) < fd.n
    /\ labels(fd.feed[1].mlTags) # {} /\ labels(fd.feed[2].mlTags) # {}
    /\ \E k \in DOMAIN fd.sorted_posts :
          /\ \A i \in DOMAIN fd.feed : fd.feed[i]._id # fd.sorted_posts[k]._id
          /\ Exceeds(tag_similarity(fd.sorted_posts[k].mlTags, fd.feed[1].mlTags),
                     DIVERSITY_THRESHOLD)
          /\ ~Exceeds(tag_similarity(fd.sorted_posts[k].mlTags, fd.feed[2].mlTags),
                      DIVERSITY_THRESHOLD)

(***************************************************************************)
(* Interaction counts                                                      *)
(***************************************************************************)
\* the positions of a thread inside update, before update returns
InUpdate ==
    {"update", "W2", "b2", "W1", "b1", "user_emb", "post_emb", "negative",
     "count", "count_store"}

\* C11: with one worker, an update call for user u changes no count before it
\* returns and returns with u's count one higher and every other count as it
\* was; predict, ncf_weight and snapshots in between never lower a count.
C11_CountGrowsByOne ==
    [][/\ \A u \in Users : Count(model', u) >= Count(model, u)
       /\ (th[1].pc \in InUpdate /\ th'[1].pc \in InUpdate)
            => model'.user_interaction_counts = model.user_interaction_counts
       /\ (th[1].pc \in InUpdate /\ th'[1].pc \notin InUpdate)
            => \A u \in Users :
                   Count(model', u) =
                       Count(model, u) + (IF u = th[1].user_id THEN 1 ELSE 0)
       /\ (th[1].pc \notin InUpdate /\ main = "serving")
            => model'.user_interaction_counts = model.user_interaction_counts]_vars

\* an update for a user restored with a count, another for a user without
\* one, both answered
C11_Witness ==
    /\ th[1].pc = "idle" /\ th[1].resp # <<>>
    /\ Count(model, "u1") = MIN_INTERACTIONS + 2
    /\ Count(model, "u2") = 1

(***************************************************************************)
(* Properties of /recommend                                                *)
(***************************************************************************)
\* the request has been answered with a feed
Returned == fd.phase = "returned" /\ fd.req.posts # <<>>

\* C12: when topN is larger than the number of candidates, every candidate is
\* in the returned feed, mutually similar candidates included, and the
\* request does not fail.
C12_EverythingAvailable ==
    /\ fd.phase # "raised"
    /\ (Returned /\ top_n_of(fd.req) > Len(fd.req.posts))
         => /\ Len(fd.final) = Len(fd.req.posts)
            /\ IdsOf(fd.final) = IdsOf(fd.req.posts)

\* candidates any two of which are at most DIVERSITY_THRESHOLD similar
PairwiseDiverse(posts) ==
    \A i, j \in DOMAIN posts :
        i # j => ~Exceeds(tag_similarity(posts[i].mlTags, posts[j].mlTags),
                          DIVERSITY_THRESHOLD)

Flagged(posts) ==
    { i \in DOMAIN posts : Get(posts[i], "is_serendipity", FALSE) }

\* C13: with s = max(1, floor(topN * 0.10)), the personalized slice never
\* exceeds topN - s, and when at least topN pairwise diverse candidates are
\* supplied the feed has exactly topN posts, s of them flagged serendipity
\* and topN - s not.
C13_SlotSizing ==
    LET top_n == top_n_of(fd.req)
        s     == Max(1, (top_n * 10) \div 100)
    IN  /\ fd.phase \in {"loop", "done", "returned"} => Len(fd.feed) <= top_n - s
        /\ (Returned /\ fd.req.top_n >= 1 /\ Len(fd.req.posts) >= top_n
              /\ PairwiseDiverse(fd.req.posts))
             => /\ Len(fd.final) = top_n
                /\ Cardinality(Flagged(fd.final)) = s
                /\ Cardinality(DOMAIN fd.final \ Flagged(fd.final)) = top_n - s

\* three diverse candidates, three asked for: two personalized, one flagged
C13_Witness ==
    /\ Returned
    /\ fd.req.top_n = 3 /\ Len(fd.req.posts) = 3 /\ PairwiseDiverse(fd.req.posts)
    /\ fd.req.user_id = "u1" /\ Count(model, "u1") = 0
    /\ Len(fd.feed) = 2 /\ Len(fd.serendipity) = 1
    /\ Cardinality(Flagged(fd.final)) = 1

\* C14: the returned feed is the personalized slice followed by the
\* serendipity slice, reordered so that scores never increase from one post
\* to the next, with posts of equal score left in the order they had.
C14_SortedStable ==
    Returned =>
        LET both == fd.feed \o fd.serendipity
            at(p) == CHOOSE k \in DOMAIN fd.final : fd.final[k] = p
        IN  /\ Len(fd.final) = Len(both)
            /\ \A i \in DOMAIN both : \E k \in DOMAIN fd.final : fd.final[k] = both[i]
            /\ \A k \in 1..(Len(fd.final) - 1) :
                   fd.final[k].score >= fd.final[k + 1].score
            /\ \A i, j \in DOMAIN both :
                   (i < j /\ both[i].score = both[j].score) => at(both[i]) < at(both[j])

\* a serendipity post that outscores a personalized one and ties with another
C14_Witness ==
    /\ Returned
    /\ Len(fd.feed) = 2 /\ Len(fd.serendipity) = 1
    /\ fd.serendipity[1].score = fd.feed[1].score
    /\ fd.serendipity[1].score > fd.feed[2].score
    /\ fd.final = <<fd.feed[1], fd.serendipity[1], fd.feed[2]>>

(***************************************************************************)
(* Properties of affinity building                                         *)
(***************************************************************************)
\* the tag is a mapping with a label and a confidence
TagComplete(tag) ==
    tag.type = "dict" /\ "label" \in DOMAIN tag.v /\ "confidence" \in DOMAIN tag.v

\* the entry has the documented shape
EntryComplete(entry) ==
    LET tags == tags_of(entry)
    IN  /\ tags.type = "dict"
        /\ \A c \in DOMAIN tags.v :
               /\ tags.v[c].type = "list"
               /\ \A j \in DOMAIN tags.v[c].v : TagComplete(tags.v[c].v[j])

\* C15: for a history of well-shaped entries with confidences in [0,1] and
\* non-negative weights, every category present in the result has label
\* weights in [0,1] that sum to 1, so none is present with a zero total.
C15_AffinityNormalized ==
    (/\ sc.phase = "done"
     /\ \A i \in DOMAIN sc.interaction_history :
            EntryComplete(sc.interaction_history[i]))
      => /\ ~sc.result.raised
         /\ \A c \in DOMAIN sc.result.affinity :
                LET w == sc.result.affinity[c]
                IN  /\ \A l \in DOMAIN w : 0 <= w[l].num /\ w[l].num <= w[l].den
                    /\ \A l \in DOMAIN w :
                           SumMap([k \in DOMAIN w |-> w[k].num], DOMAIN w) = w[l].den

\* the entry with everything of another shape left out: tags that are no
\* mapping, categories that are no list, tags without label or confidence
skip_malformed(entry) ==
    LET tags == tags_of(entry)
    IN  IF tags.type # "dict" THEN [weight |-> Get(entry, "weight", 100)]
        ELSE [weight |-> Get(entry, "weight", 100),
              tags |-> Dict([c \in DOMAIN tags.v |->
                               IF tags.v[c].type # "list" THEN List(<<>>)
                               ELSE List(SelectSeq(tags.v[c].v, TagComplete))])]

\* C16: build_user_affinity never raises on a malformed entry, and returns
\* what it returns for the history with the malformed parts left out.
C16_MalformedSkipped ==
    sc.phase = "done" =>
        /\ ~sc.result.raised
        /\ sc.result.affinity =
             build_user_affinity([i \in DOMAIN sc.interaction_history |->
                                     skip_malformed(sc.interaction_history[i])]).affinity

Clipped(stats, name) ==
    LET rec == stats["a1"].v
        val == IF name = "bot_score"
               THEN Get(rec, "bot_score",
                        Get(rec.behavior_features.v, "botScore", Num(0)))
               ELSE Get(rec.behavior_features.v, name, Num(0))
    IN  IF val.type = "num" THEN Min(100, Max(0, val.v)) ELSE 0

\* C18: the trust factor lies in [1 - MAX_BEHAVIOR_PENALTY, 1]; it is exactly
\* 1 - MAX_BEHAVIOR_PENALTY when the bot score and the three features are all
\* at least 1; and it is 1 - MAX_BEHAVIOR_PENALTY * suspicion with every
\* value cut to [0, 1] before it is weighted.
C18_TrustFactorBounded ==
    (sc.phase = "done" /\ ~sc.raised) =>
        /\ Scale - MAX_BEHAVIOR_PENALTY * 100 <= sc.factor /\ sc.factor <= Scale
        /\ sc.creator_behavior_stats \in NumericTrust =>
             LET st == sc.creator_behavior_stats
                 names == {"bot_score", "fastReplyPct", "circadianFlatness",
                           "intervalRegularity"}
             IN  /\ (\A n \in names : Clipped(st, n) = 100)
                      => sc.factor = Scale - MAX_BEHAVIOR_PENALTY * 100
                 /\ sc.factor =
                      (Scale * 100 - MAX_BEHAVIOR_PENALTY *
                          (60 * Clipped(st, "bot_score")
                             + 15 * Clipped(st, "fastReplyPct")
                             + 15 * Clipped(st, "circadianFlatness")
                             + 10 * Clipped(st, "intervalRegularity"))) \div 100

\* a record with every value above 1: the factor is at its floor
C18_Witness ==
    /\ sc.phase = "done" /\ ~sc.raised
    /\ sc.creator_behavior_stats =
         Trust([bot_score |-> Num(250),
                behavior_features |->
                    Dict([fastReplyPct |-> Num(150), circadianFlatness |-> Num(150),
                          intervalRegularity |-> Num(700)])])
    /\ sc.factor = Scale - MAX_BEHAVIOR_PENALTY * 100
    /\ sc.score > 0

\* C19: a missing trust record, or one whose bot score or behaviour features
\* are absent, null, non-numeric or no mapping, never makes the scorer raise
\* and leaves the trust factor at 1; a post whose categories or labels have
\* no affinity entry never makes it raise either.
C19_MissingDataNeutral ==
    sc.phase = "done" =>
        /\ ~sc.raised
        /\ sc.creator_behavior_stats \in MissingTrust =>
             /\ sc.factor = Scale
             /\ sc.score = compute_hybrid_score(
                               model, rng, "", sc.post, sc.user_affinity, EmptyMap, 0,
                               sc.followed_artist_ids, EmptyMap, 0).score

(***************************************************************************)
(* Properties of tag_similarity                                            *)
(***************************************************************************)
\* C20: tag_similarity is symmetric, lies in [0, 1], is 1 for two structures
\* with the same non-empty label set, and is 0 when the label sets are
\* disjoint or one of them is empty.
C20_SimilarityLaws ==
    sc.phase = "done" =>
        LET a == labels(sc.tags_a)
            b == labels(sc.tags_b)
        IN  /\ sc.ab.num * sc.ba.den = sc.ba.num * sc.ab.den
            /\ sc.ab.den > 0 /\ 0 <= sc.ab.num /\ sc.ab.num <= sc.ab.den
            /\ (a = b /\ a # {}) => sc.ab.num = sc.ab.den
            /\ (a \cap b = {}) => sc.ab.num = 0

\* two structures that share one label of three, spread differently over
\* the categories
C20_Witness ==
    /\ sc.phase = "done"
    /\ DOMAIN sc.tags_a # DOMAIN sc.tags_b
    /\ Cardinality(labels(sc.tags_a)) = 2 /\ Cardinality(labels(sc.tags_b)) = 2
    /\ sc.ab = [num |-> 1, den |-> 3]

(***************************************************************************)
(* Properties of /interaction and update                                   *)
(***************************************************************************)
\* C22: the negatives update is given never hold the post of the update, so
\* the id it draws as the negative sample is never that post, whatever list
\* the request carried.
C22_NegativeNeverPositive ==
    \A t \in Threads :
        /\ \A i \in DOMAIN th[t].negatives : th[t].negatives[i] # th[t].post_id
        /\ th[t].neg_id # "" =>
              /\ th[t].neg_id # th[t].post_id
              /\ \E i \in DOMAIN th[t].negatives : th[t].negatives[i] = th[t].neg_id

\* a negative drawn for a request whose list named the liked post twice
C22_Witness ==
    /\ th[1].post_id = "p1" /\ th[1].negatives = <<"p2", "p2">>
    /\ th[1].neg_id = "p2"
    /\ th[1].pc = "idle" /\ th[1].resp # <<>>

\* the position that follows each position of the /interaction handler
Follows(pc) ==
    CASE pc = "idle"        -> {"update"}
      [] pc = "update"      -> {"W2"}
      [] pc = "W2"          -> {"b2"}
      [] pc = "b2"          -> {"W1"}
      [] pc = "W1"          -> {"b1"}
      [] pc = "b1"          -> {"user_emb"}
      [] pc = "user_emb"    -> {"post_emb"}
      [] pc = "post_emb"    -> {"negative", "count"}
      [] pc = "negative"    -> {"count"}
      [] pc = "count"       -> {"count_store"}
      [] pc = "count_store" -> {"save"}
      [] pc = "save"        -> {"respond"}
      [] pc = "respond"     -> {"idle"}

\* the last step applied to an array
LastStep(arr) == IF arr.hist = <<>> THEN <<>> ELSE arr.hist[Len(arr.hist)]

\* the model holds the update of thread t: its gradient step is the last
\* one on the four parameter arrays, both embeddings exist and carry it, and
\* the user's count is one above the count the update read
Updated(m, t) ==
    /\ LastStep(m.W2) = Grad(t) /\ LastStep(m.b2) = Grad(t)
    /\ LastStep(m.W1) = Grad(t) /\ LastStep(m.b1) = Grad(t)
    /\ th[t].user_id \in DOMAIN m.user_embeddings
    /\ LastStep(m.user_embeddings[th[t].user_id]) = Grad(t)
    /\ th[t].post_id \in DOMAIN m.post_embeddings
    /\ Occ(m.post_embeddings[th[t].post_id].hist, Grad(t)) > 0
    /\ Count(m, th[t].user_id) = th[t].count + 1

\* C23: a request runs update once, then save_model once, then answers: the
\* handler's positions follow one another in that order; when save_model is
\* reached the model holds the whole update; a snapshot written by it is the
\* snapshot of that model, incremented count included; the answer is ok and
\* carries ncf_weight of the incremented count; and all of it holds for users
\* and posts that had no embedding.
C23_UpdateThenSave ==
    /\ [](\A t \in Threads :
             th[t].pc \in {"save", "respond"} => Updated(model, t))
    /\ [][\A t \in Threads :
             /\ th'[t].pc # th[t].pc => th'[t].pc \in Follows(th[t].pc)
             /\ (main = "serving" /\ \A s \in Threads : th[s].pc \notin InUpdate) =>
                   /\ model'.user_interaction_counts = model.user_interaction_counts
                   /\ model'.W2 = model.W2
             /\ (store' # store /\ th[t].pc = "save") =>
                   /\ store'.doc = Upsert(store.doc, to_dict(model))
                   /\ ~from_dict_raises(store'.doc[1])
                   /\ Updated(from_dict(store'.doc[1]), t)
             /\ (store' # store) => \E s \in Threads : th[s].pc = "save"
             /\ (th[t].pc = "respond" /\ th'[t].pc = "idle") =>
                   th'[t].resp = <<[ok |-> TRUE,
                                    ncf_weight |-> ncf_weight_of(th[t].count + 1)]>>]_vars

\* a user past the threshold interacting with a post that had no embedding:
\* the snapshot in the store holds the new count and the new embedding
C23_Witness ==
    /\ th[1].pc = "idle" /\ th[1].resp # <<>>
    /\ th[1].user_id = "u1" /\ th[1].post_id = "p2"
    /\ th[1].resp[1].ok /\ th[1].resp[1].ncf_weight > 0
    /\ store.doc # <<>>
    /\ store.doc[1].user_interaction_counts["u1"] = MIN_INTERACTIONS + 2
    /\ "p2" \in DOMAIN store.doc[1].post_embeddings
    /\ from_dict(store.doc[1]) = model

\* C24: an update whose kind is neither "like" nor "comment" takes the label
\* of a like, applies the gradient step a like applies and raises the user's
\* count by one; the request is answered ok.
C24_UnknownKindAsLike ==
    \A t \in Threads :
        th[t].kind \notin {"", "like", "comment"} =>
            /\ th[t].label = INTERACTION_WEIGHTS("like")
            /\ th[t].label = 100
            /\ Grad(t) = <<"grad", INTERACTION_WEIGHTS("like"), th[t].user_id, th[t].post_id>>
            /\ th[t].pc \in {"save", "respond"} => Updated(model, t)
            /\ th[t].pc = "idle" =>
                  /\ th[t].resp # <<>> /\ th[t].resp[1].ok
                  /\ Count(model, th[t].user_id) >= th[t].count + 1

\* a "share" by a user who had no count, answered
C24_Witness ==
    /\ th[1].kind = "share" /\ th[1].pc = "idle" /\ th[1].resp # <<>>
    /\ th[1].user_id = "u2" /\ Count(model, "u2") = 1
    /\ LastStep(model.W2) = <<"grad", 100, "u2", th[1].post_id>>

\* the ids whose embedding exists before and after the step and differs
ChangedUsers ==
    { k \in DOMAIN model.user_embeddings \cap DOMAIN model'.user_embeddings :
        model'.user_embeddings[k] # model.user_embeddings[k] }

ChangedPosts ==
    { k \in DOMAIN model.post_embeddings \cap DOMAIN model'.post_embeddings :
        model'.post_embeddings[k] # model.post_embeddings[k] }

\* C28: an embedding, once created, stays in its map with the length of the
\* model's embedding dimension, which the service never changes while it
\* serves; a step changes the value of an existing embedding only inside an
\* update, and then only the embedding of the update's user, of its post, or
\* of the one negative it drew; predict, ncf_weight, save_model and the
\* responses change none.
C28_EmbeddingFrame ==
    /\ [](/\ \A k \in DOMAIN model.user_embeddings :
                 model.user_embeddings[k].shape = <<model.embedding_dim>>
          /\ \A k \in DOMAIN model.post_embeddings :
                 model.post_embeddings[k].shape = <<model.embedding_dim>>)
    /\ [][/\ DOMAIN model.user_embeddings \subseteq DOMAIN model'.user_embeddings
          /\ DOMAIN model.post_embeddings \subseteq DOMAIN model'.post_embeddings
          /\ main = "serving" => model'.embedding_dim = model.embedding_dim
          /\ \A k \in ChangedUsers :
                 \E t \in Threads : th[t].pc \in InUpdate /\ k = th[t].user_id
          /\ \A k \in ChangedPosts :
                 \E t \in Threads :
                     /\ th[t].pc \in InUpdate
                     /\ \/ k = th[t].post_id
                        \/ th[t].pc = "negative" /\ k = th'[t].neg_id
          /\ \A t \in Threads :
                 /\ th[t].pc \in InUpdate =>
                       Cardinality(ChangedPosts \ {th[t].post_id}) <= 1
                 /\ (th[t].neg_id # "" /\ th[t].pc \in InUpdate) =>
                       th'[t].neg_id = th[t].neg_id]_vars

\* an update by a new user that drew a negative, answered: the negative's
\* embedding carries the pairwise step, and the embedding restored for the
\* other user is as it was
C28_Witness ==
    /\ th[1].pc = "idle" /\ th[1].resp # <<>>
    /\ th[1].user_id = "u2" /\ th[1].post_id = "p1" /\ th[1].neg_id = "p2"
    /\ LastStep(model.post_embeddings["p2"]) = <<"bpr-", "p1">>
    /\ "u1" \in DOMAIN model.user_embeddings
    /\ model.user_embeddings["u1"].hist = <<>>
    /\ th[1].pred = <<>>

(***************************************************************************)
(* Properties of the blend                                                 *)
(***************************************************************************)
\* the parts of the score of the call in sc, computed from its inputs
TagScoreOf ==
    compute_tag_score(Get(sc.post, "mlTags", EmptyMap), sc.user_affinity,
                      sc.seen_tag_counts, sc.explore)

BoostOf ==
    IF Get(sc.post, "artistId", "") # ""
          /\ Get(sc.post, "artistId", "") \in sc.followed_artist_ids
    THEN FOLLOW_BOOST ELSE 0

FactorOf == behavior_factor(Get(sc.post, "artistId", ""), sc.creator_behavior_stats)

\* alpha * predict + (1 - alpha) * tagScore
BlendOf(alpha) == (alpha * sc.ncf_score + (Scale - alpha) * TagScoreOf) \div Scale

\* C21 as stated: without a user id, or with ncf_weight 0 for the user, the
\* score is built on the tag score alone and the call leaves the model as it
\* was; in every other case it is built on
\* alpha * predict + (1 - alpha) * tagScore with alpha = ncf_weight(user).
C21_BlendRule ==
    [][(sc.phase = "call" /\ sc'.phase = "done") =>
          LET alpha == ncf_weight(model, sc.user_id)
          IN  IF sc.user_id = "" \/ alpha = 0
              THEN /\ sc'.score = final_score(TagScoreOf, BoostOf, FactorOf)
                   /\ model' = model /\ rng' = rng
              ELSE sc'.score = final_score(BlendOf(alpha), BoostOf, FactorOf)]_vars

\* C21 amended: the tag score alone is also what a post without an id is
\* scored on, whatever the user; the blend is used when the user id and the
\* post id are both given and ncf_weight is not 0, and only then is predict
\* called, which creates the embeddings the pair lacks.
C21_BlendRuleWithPostId ==
    [][(sc.phase = "call" /\ sc'.phase = "done") =>
          LET alpha   == ncf_weight(model, sc.user_id)
              post_id == Get(sc.post, "_id", "")
          IN  IF sc.user_id = "" \/ post_id = "" \/ alpha = 0
              THEN /\ sc'.score = final_score(TagScoreOf, BoostOf, FactorOf)
                   /\ model' = model /\ rng' = rng
              ELSE /\ sc'.score = final_score(BlendOf(alpha), BoostOf, FactorOf)
                   /\ model' = predict(model, sc.user_id, post_id, rng).model
                   /\ DOMAIN model'.user_embeddings = {sc.user_id}
                   /\ DOMAIN model'.post_embeddings = {post_id}]_vars

\* a blended score that differs from the score the tags alone would give,
\* for a pair whose embeddings the call created
C21_Witness ==
    /\ sc.phase = "done"
    /\ sc.user_id = "u1" /\ Get(sc.post, "_id", "") = "p1"
    /\ ncf_weight(model, "u1") > 0
    /\ sc.score = final_score(BlendOf(ncf_weight(model, "u1")), BoostOf, FactorOf)
    /\ sc.score # final_score(TagScoreOf, BoostOf, FactorOf)
    /\ DOMAIN model.user_embeddings = {"u1"} /\ DOMAIN model.post_embeddings = {"p1"}

(***************************************************************************)
(* Properties of the greedy walk                                           *)
(***************************************************************************)
\* the candidate visited k-th is in the personalized slice
Accepted(k) == \E i \in DOMAIN fd.feed : fd.feed[i] = fd.sorted_posts[k]

\* the slice had reached its target size when the k-th candidate was visited
FullAt(k) == Cardinality({ j \in 1..(k - 1) : Accepted(j) }) >= fd.n

\* an accepted post visited before the k-th is more than DIVERSITY_THRESHOLD
\* similar to it
BlockedAt(k) ==
    \E j \in 1..(k - 1) :
        /\ Accepted(j)
        /\ Exceeds(tag_similarity(Get(fd.sorted_posts[k], "mlTags", EmptyMap),
                                  Get(fd.sorted_posts[j], "mlTags", EmptyMap)),
                   DIVERSITY_THRESHOLD)

\* C25: assemble_feed visits the candidates by descending score, ties in
\* input order; a candidate is in the slice exactly when, at its visit, the
\* slice was below its target size and no accepted post was more than 0.45
\* similar to it; so of two candidates with the same non-empty label set the
\* one visited first is accepted, unless the slice was full or a third post
\* blocked it, and the other is left out.
C25_GreedyAcceptance ==
    (fd.phase = "done" /\ "req" \notin DOMAIN fd) =>
        LET S == fd.sorted_posts
        IN  /\ Len(S) = Len(fd.scored)
            /\ \A i \in DOMAIN fd.scored : \E k \in DOMAIN S : S[k] = fd.scored[i]
            /\ \A k \in 1..(Len(S) - 1) :
                   \/ S[k].score > S[k + 1].score
                   \/ S[k].score = S[k + 1].score /\ S[k]._id < S[k + 1]._id
            /\ \A k \in DOMAIN S : Accepted(k) <=> (~FullAt(k) /\ ~BlockedAt(k))
            /\ \A i, j \in DOMAIN fd.feed :
                   i < j => \E k, l \in DOMAIN S :
                               k < l /\ S[k] = fd.feed[i] /\ S[l] = fd.feed[j]
            /\ \A k, l \in DOMAIN S :
                   ( /\ k < l
                     /\ labels(S[k].mlTags) = labels(S[l].mlTags)
                     /\ labels(S[k].mlTags) # {}
                     /\ ~FullAt(k) /\ ~BlockedAt(k) )
                       => Accepted(k) /\ ~Accepted(l)

\* two candidates tagged alike, the second outscoring the first: the second
\* is accepted and the first left out although the slice has room; a third
\* candidate ties with the accepted one and follows it
C25_Witness ==
    /\ fd.phase = "done" /\ "req" \notin DOMAIN fd
    /\ Len(fd.scored) = 3 /\ fd.n = 3 /\ Len(fd.feed) = 2
    /\ fd.scored[1].mlTags = fd.scored[2].mlTags
    /\ labels(fd.scored[1].mlTags) # {}
    /\ fd.scored[1].score < fd.scored[2].score
    /\ fd.scored[3].score = fd.scored[2].score
    /\ fd.feed = <<fd.scored[2], fd.scored[3]>>

(***************************************************************************)
(* Properties of the two passes and the serendipity slice                  *)
(***************************************************************************)
\* the score of candidate p of the request in fd, for the given seen-tag
\* counts and the given draw of random.uniform
ScoreOf(p, seen_tag_counts, explore) ==
    compute_hybrid_score(model, rng, fd.req.user_id, p, fd.affinity, seen_tag_counts,
                         explore, fd.req.followed_artist_ids,
                         fd.req.creator_behavior_stats, fd.req.ncf[p._id]).score

\* the candidate of the request that carries the id
Candidate(id) == fd.req.posts[PosOf(id)]

\* the number of tag entries of the posts that carry the label
EntriesWith(posts, label) ==
    Cardinality({ e \in (DOMAIN posts) \X AllCategories \X (1..MaxSimTags) :
                    /\ e[2] \in DOMAIN posts[e[1]].mlTags
                    /\ e[3] \in DOMAIN posts[e[1]].mlTags[e[2]]
                    /\ "label" \in DOMAIN posts[e[1]].mlTags[e[2]][e[3]]
                    /\ posts[e[1]].mlTags[e[2]][e[3]].label = label })

\* C26: the serendipity slice holds min(s, candidates outside the
\* personalized slice) posts with s = max(1, floor(topN * 0.10)); each is a
\* candidate outside the personalized slice and is flagged; each is at least
\* as dissimilar to the personalized slice as every remaining candidate that
\* was not chosen; and no post of the personalized slice is flagged.
C26_SerendipitySelection ==
    Returned =>
        LET top_n   == top_n_of(fd.req)
            s       == Max(1, (top_n * 10) \div 100)
            outside == IdsOf(fd.req.posts) \ IdsOf(fd.feed)
            sim(p, f) == tag_similarity(Get(p, "mlTags", EmptyMap),
                                        Get(f, "mlTags", EmptyMap))
        IN  /\ Len(fd.serendipity) = Min(s, Cardinality(outside))
            /\ Cardinality(IdsOf(fd.serendipity)) = Len(fd.serendipity)
            /\ IdsOf(fd.serendipity) \subseteq outside
            /\ \A i \in DOMAIN fd.serendipity :
                   /\ "is_serendipity" \in DOMAIN fd.serendipity[i]
                   /\ fd.serendipity[i].is_serendipity = TRUE
                   /\ \E k \in DOMAIN fd.final : fd.final[k] = fd.serendipity[i]
            /\ \A i \in DOMAIN fd.serendipity, r \in DOMAIN fd.remaining :
                   fd.remaining[r]._id \notin IdsOf(fd.serendipity) =>
                       \/ fd.feed = <<>>
                       \/ \E f \in DOMAIN fd.feed : \A g \in DOMAIN fd.feed :
                              FracLeq(sim(fd.serendipity[i], fd.feed[g]),
                                      sim(fd.remaining[r], fd.feed[f]))
            /\ \A i \in DOMAIN fd.feed : "is_serendipity" \notin DOMAIN fd.feed[i]
            /\ Cardinality(Flagged(fd.final)) = Len(fd.serendipity)

\* one slot to fill from two remaining candidates: the later one is chosen,
\* being less similar to the personalized post than the earlier one
C26_Witness ==
    /\ Returned
    /\ Len(fd.feed) = 1 /\ Len(fd.remaining) = 2 /\ Len(fd.serendipity) = 1
    /\ fd.serendipity[1]._id = fd.remaining[2]._id
    /\ ~FracLeq(tag_similarity(fd.remaining[1].mlTags, fd.feed[1].mlTags),
                tag_similarity(fd.remaining[2].mlTags, fd.feed[1].mlTags))

\* C27: pass 1 scores every candidate with empty seen-tag counts; the posts
\* of the personalized slice are returned with that score; pass 2 gives
\* every candidate outside the slice, and no other, the score computed with
\* the seen-tag counts of the slice; and those counts map each label to the
\* number of tag entries carrying it in the accepted posts.
C27_SecondPass ==
    Returned =>
        /\ \A k \in DOMAIN fd.scored :
               /\ fd.scored[k]._id = fd.req.posts[k]._id
               /\ fd.scored[k].score =
                      ScoreOf(fd.req.posts[k], EmptyMap, fd.draws[fd.req.posts[k]._id])
        /\ \A i \in DOMAIN fd.feed :
               /\ \E k \in DOMAIN fd.scored : fd.scored[k] = fd.feed[i]
               /\ \E j \in DOMAIN fd.final : fd.final[j] = fd.feed[i]
        /\ IdsOf(fd.remaining) = IdsOf(fd.req.posts) \ IdsOf(fd.feed)
        /\ Len(fd.remaining) = Len(fd.req.posts) - Len(fd.feed)
        /\ \A i \in DOMAIN fd.remaining :
               fd.remaining[i].score =
                   ScoreOf(Candidate(fd.remaining[i]._id), fd.seen_tag_counts,
                           fd.draws2[fd.remaining[i]._id])
        /\ \A l \in {"a", "b", "c", "d"} :
               Get(fd.seen_tag_counts, l, 0) = EntriesWith(fd.feed, l)
        /\ \A l \in DOMAIN fd.seen_tag_counts : EntriesWith(fd.feed, l) > 0

\* an accepted post with two tags on label a: the count of a is 2, and the
\* post left over, tagged a, is re-scored lower than in pass 1 on equal draws
C27_Witness ==
    /\ Returned
    /\ Len(fd.feed) = 1 /\ Len(fd.remaining) = 2
    /\ Get(fd.seen_tag_counts, "a", 0) = 2
    /\ \E i \in DOMAIN fd.remaining, k \in DOMAIN fd.scored :
          /\ fd.scored[k]._id = fd.remaining[i]._id
          /\ fd.draws[fd.scored[k]._id] = fd.draws2[fd.scored[k]._id]
          /\ fd.remaining[i].score < fd.scored[k].score

\* C29: the random term of every score lies in [0, explorationFactor) for
\* the exploration factor of the request, and is absent when that factor is
\* 0, so that the scores are those computed without it; and the slot sizes
\* come from the target size of the request.
C29_SuppliedParameters ==
    (fd.phase \in {"call", "loop", "done", "returned"} /\ fd.req.posts # <<>>) =>
        LET e == fd.req.exploration_factor * 100
            within(d) == d = 0 \/ (0 <= d /\ d < e)
        IN  /\ \A id \in DOMAIN fd.draws : within(fd.draws[id])
            /\ \A id \in DOMAIN fd.draws2 : within(fd.draws2[id])
            /\ fd.req.exploration_factor = 0 =>
                  \A k \in DOMAIN fd.scored :
                      fd.scored[k].score = ScoreOf(fd.req.posts[k], EmptyMap, 0)
            /\ fd.req.top_n >= 1 =>
                  fd.n = fd.req.top_n - Max(1, (fd.req.top_n * 10) \div 100)

\* C30: for distinct candidates and topN >= 1 the returned feed names no
\* candidate twice, its two slices share no post, every post in it is one of
\* the candidates, and it is at most topN long.
C30_FeedWellFormed ==
    (Returned /\ fd.req.top_n >= 1) =>
        /\ \A i, j \in DOMAIN fd.final : i # j => fd.final[i]._id # fd.final[j]._id
        /\ IdsOf(fd.feed) \cap IdsOf(fd.serendipity) = {}
        /\ IdsOf(fd.final) = IdsOf(fd.feed) \cup IdsOf(fd.serendipity)
        /\ \A i \in DOMAIN fd.final :
               /\ fd.final[i]._id \in IdsOf(fd.req.posts)
               /\ fd.final[i].mlTags = Candidate(fd.final[i]._id).mlTags
               /\ fd.final[i].artistId = Candidate(fd.final[i]._id).artistId
        /\ Len(fd.final) <= fd.req.top_n

\* three candidates, two asked for: one personalized, one serendipity, one
\* left out
C30_Witness ==
    /\ Returned
    /\ fd.req.top_n = 2 /\ Len(fd.req.posts) = 3
    /\ Len(fd.feed) = 1 /\ Len(fd.serendipity) = 1 /\ Len(fd.final) = 2
    /\ fd.final[1]._id # fd.final[2]._id

====
